---- MODULE Spec2Model ----
(***************************************************************************)
(* secure-filters: context-sensitive output encoders (html, js, jsAttr,    *)
(* uri, json, jsObj, css, style).                                          *)
(*                                                                         *)
(* A JavaScript string is modelled as the sequence of its UTF-16 code      *)
(* units (integers 0..65535).  Each encoder is an operator computed the    *)
(* way lib/secure-filters.js computes it: String(val), then the chain of   *)
(* String.prototype.replace passes with the module's regular expressions.  *)
(***************************************************************************)
EXTENDS Integers, Sequences, FiniteSets, TLC

VARIABLES arg, platform, fn, result, threw, lastIndex, ejs, given, returned, earlier

vars == <<arg, platform, fn, result, threw, lastIndex, ejs, given, returned, earlier>>

(***************************************************************************)
(* Bounds of the model.                                                    *)
(***************************************************************************)
\* an input string is the concatenation of at most MaxParts core fragments
MaxParts == 3

(***************************************************************************)
(* Sequence helpers.                                                       *)
(***************************************************************************)
\* the concatenation of the sequences of ss, by halves
RECURSIVE Flatten(_)
Flatten(ss) ==
    IF ss = <<>> THEN <<>>
    ELSE IF Len(ss) = 1 THEN ss[1]
    ELSE LET half == Len(ss) \div 2
         IN  Flatten(SubSeq(ss, 1, half)) \o Flatten(SubSeq(ss, half + 1, Len(ss)))

\* does pat occur in s starting at index i
StartsAt(s, i, pat) ==
    /\ i >= 1
    /\ i + Len(pat) - 1 <= Len(s)
    /\ \A k \in 1..Len(pat) : s[i + k - 1] = pat[k]

Contains(s, pat) == \E i \in 1..Len(s) : StartsAt(s, i, pat)

(***************************************************************************)
(* Number.prototype.toString(radix) and String.prototype.toUpperCase /     *)
(* toLowerCase on the digit strings the encoders build.                    *)
(***************************************************************************)
Digit(d) == IF d < 10 THEN 48 + d ELSE 87 + d

RECURSIVE toString16(_)
toString16(n) ==
    IF n < 16 THEN <<Digit(n)>> ELSE toString16(n \div 16) \o <<Digit(n % 16)>>

RECURSIVE toString10(_)
toString10(n) ==
    IF n < 10 THEN <<Digit(n)>> ELSE toString10(n \div 10) \o <<Digit(n % 10)>>

toUpperCase(s) == [i \in 1..Len(s) |-> IF s[i] \in 97..122 THEN s[i] - 32 ELSE s[i]]

toLowerCase(s) == [i \in 1..Len(s) |-> IF s[i] \in 65..90 THEN s[i] + 32 ELSE s[i]]

(***************************************************************************)
(* String.prototype.replace(regexp, newSubstr) for a /g regular expression *)
(* that matches the one character ch: every ch is replaced by repl.        *)
(***************************************************************************)
replace(str, ch, repl) ==
    Flatten([i \in 1..Len(str) |-> IF str[i] = ch THEN repl ELSE <<str[i]>>])

(***************************************************************************)
(* The character-class tables.                                             *)
(***************************************************************************)
\* mutant: the whitelist of the previous release, which let U+00A1-U+FFFF through
JS_NOT_WHITELISTED_Legacy(c) ==
    ~ (c \in {44, 45, 46, 95} \/ c \in 48..57 \/ c \in 65..90 \/ c \in 97..122
         \/ c \in 161..65535)

\* mutant: the hyphen taken for unsafe, as ESAPI takes it
JS_NOT_WHITELISTED_Esapi(c) ==
    ~ (c \in {44, 46, 95} \/ c \in 48..57 \/ c \in 65..90 \/ c \in 97..122)

\* /[^,\-\.0-9A-Z_a-z]/g
JS_NOT_WHITELISTED(c) ==
    ~ (c \in {44, 45, 46, 95} \/ c \in 48..57 \/ c \in 65..90 \/ c \in 97..122)

\* mutant: '<' and '>' taken for JSON metacharacters and whitelisted
JSON_NOT_WHITELISTED_Angle(c) ==
    ~ (c \in {34, 44, 45, 46, 58, 60, 62, 91, 92, 93, 95, 123, 125}
         \/ c \in 48..57 \/ c \in 65..90 \/ c \in 97..122)

\* /[^\x22,\-\.0-9:A-Z\[\x5C\]_a-z{}]/g
JSON_NOT_WHITELISTED(c) ==
    ~ (c \in {34, 44, 45, 46, 58, 91, 92, 93, 95, 123, 125}
         \/ c \in 48..57 \/ c \in 65..90 \/ c \in 97..122)

\* /[\x00-\x08\x0B\x0C\x0E-\x1F\x7F-\x9F]/g
HTML_CONTROL(c) ==
    c \in 0..8 \/ c \in {11, 12} \/ c \in 14..31 \/ c \in 127..159

\* mutant: the surrogate halves taken out of the whitelist
HTML_NOT_WHITELISTED_NoSurrogates(c) ==
    ~ (c \in {9, 10, 11, 12, 13, 32, 44, 46, 95, 45}
         \/ c \in 48..57 \/ c \in 65..90 \/ c \in 97..122
         \/ c \in 160..55295 \/ c \in 57344..65535)

\* mutant: the equals sign left in the whitelist
HTML_NOT_WHITELISTED_Equals(c) ==
    ~ (c \in {9, 10, 11, 12, 13, 32, 44, 46, 61, 95, 45}
         \/ c \in 48..57 \/ c \in 65..90 \/ c \in 97..122 \/ c \in 160..65535)

\* mutant: the apostrophe left in the whitelist
HTML_NOT_WHITELISTED_Apos(c) ==
    ~ (c \in {9, 10, 11, 12, 13, 32, 39, 44, 46, 95, 45}
         \/ c \in 48..57 \/ c \in 65..90 \/ c \in 97..122 \/ c \in 160..65535)

\* /[^\t\n\v\f\r ,\.0-9A-Z_a-z\-\u00A0-\uFFFF]/g
HTML_NOT_WHITELISTED(c) ==
    ~ (c \in {9, 10, 11, 12, 13, 32, 44, 46, 95, 45}
         \/ c \in 48..57 \/ c \in 65..90 \/ c \in 97..122 \/ c \in 160..65535)

\* /[^a-zA-Z0-9\uD800-\uDFFF]/g
CSS_NOT_WHITELISTED(c) ==
    ~ (c \in 97..122 \/ c \in 65..90 \/ c \in 48..57 \/ c \in 55296..57343)

(***************************************************************************)
(* Values handed to the encoders.  A value is a record tagged by kind:     *)
(*   [kind |-> "string", str |-> code units]                               *)
(*   [kind |-> "number", str |-> the text Number::toString renders]        *)
(*   [kind |-> "boolean", str |-> "true" or "false" as code units]         *)
(*   [kind |-> "null"]                                                     *)
(*   [kind |-> "array", items |-> sequence of values]                      *)
(*   [kind |-> "object", keys |-> sequence of strings,                     *)
(*                       vals |-> sequence of values]                      *)
(*   [kind |-> "undefined"]                                                *)
(*   [kind |-> "function", str |-> the source text of the function]        *)
(*   [kind |-> "cyclic"]     an object with a property that refers to the  *)
(*                           object itself                                 *)
(***************************************************************************)
StrVal(s) == [kind |-> "string", str |-> s]
NumVal(s) == [kind |-> "number", str |-> s]
BoolVal(s) == [kind |-> "boolean", str |-> s]
NullVal == [kind |-> "null"]
ArrVal(xs) == [kind |-> "array", items |-> xs]
ObjVal(ks, vs) == [kind |-> "object", keys |-> ks, vals |-> vs]
UndefinedVal == [kind |-> "undefined"]
FunctionVal(s) == [kind |-> "function", str |-> s]
CyclicVal == [kind |-> "cyclic"]

\* s with sep between consecutive elements (Array.prototype.join)
RECURSIVE join(_, _)
join(ss, sep) ==
    IF ss = <<>> THEN <<>>
    ELSE IF Len(ss) = 1 THEN ss[1]
    ELSE ss[1] \o sep \o join(Tail(ss), sep)

\* String(val), the coercion every encoder but jsObj starts with
RECURSIVE String(_)
String(val) ==
    CASE val.kind \in {"string", "number", "boolean", "function"} -> val.str
      [] val.kind = "null" -> <<110, 117, 108, 108>>
      \* "undefined"
      [] val.kind = "undefined" -> <<117, 110, 100, 101, 102, 105, 110, 101, 100>>
      [] val.kind = "array" ->
            join([i \in 1..Len(val.items) |->
                    IF val.items[i].kind \in {"null", "undefined"} THEN <<>>
                    ELSE String(val.items[i])],
                 <<44>>)
      \* "[object Object]"
      [] val.kind \in {"object", "cyclic"} ->
            <<91, 111, 98, 106, 101, 99, 116, 32, 79, 98, 106, 101, 99, 116, 93>>

(***************************************************************************)
(* secureFilters.html                                                      *)
(***************************************************************************)
\* mutant: toUpperCase forgotten on the hexadecimal digits
htmlEntity_LowerHex(code) ==
    CASE code = 34 -> <<38, 113, 117, 111, 116, 59>>
      [] code = 38 -> <<38, 97, 109, 112, 59>>
      [] code = 60 -> <<38, 108, 116, 59>>
      [] code = 62 -> <<38, 103, 116, 59>>
      [] OTHER ->
            IF code < 100
            THEN <<38, 35>> \o toString10(code) \o <<59>>
            ELSE <<38, 35, 120>> \o toString16(code) \o <<59>>

\* the replacer callback of html: named entities, then decimal below 100,
\* uppercase hexadecimal from 100 on
htmlEntity(code) ==
    CASE code = 34 -> <<38, 113, 117, 111, 116, 59>>      \* &quot;
      [] code = 38 -> <<38, 97, 109, 112, 59>>            \* &amp;
      [] code = 60 -> <<38, 108, 116, 59>>                \* &lt;
      [] code = 62 -> <<38, 103, 116, 59>>                \* &gt;
      [] OTHER ->
            IF code < 100
            THEN <<38, 35>> \o toString10(code) \o <<59>>
            ELSE <<38, 35, 120>> \o toUpperCase(toString16(code)) \o <<59>>

\* mutant: an ampersand that begins &amp; &quot; &#39; &lt; or &gt; left as
\* it is, as the AMP_NO_DOUBLE of an earlier release left it
htmlStr_NoDouble(str) ==
    LET spaced == [i \in 1..Len(str) |-> IF HTML_CONTROL(str[i]) THEN 32 ELSE str[i]]
        named(i) == \/ StartsAt(spaced, i, <<38, 97, 109, 112, 59>>)
                    \/ StartsAt(spaced, i, <<38, 113, 117, 111, 116, 59>>)
                    \/ StartsAt(spaced, i, <<38, 35, 51, 57, 59>>)
                    \/ StartsAt(spaced, i, <<38, 108, 116, 59>>)
                    \/ StartsAt(spaced, i, <<38, 103, 116, 59>>)
    IN  Flatten([i \in 1..Len(spaced) |->
                    IF HTML_NOT_WHITELISTED(spaced[i]) /\ ~ named(i)
                    THEN htmlEntity(spaced[i])
                    ELSE <<spaced[i]>>])

\* str.replace(HTML_CONTROL, ' ').replace(HTML_NOT_WHITELISTED, function ...)
htmlStr(str) ==
    LET spaced == [i \in 1..Len(str) |-> IF HTML_CONTROL(str[i]) THEN 32 ELSE str[i]]
    IN  Flatten([i \in 1..Len(spaced) |->
                    IF HTML_NOT_WHITELISTED(spaced[i]) THEN htmlEntity(spaced[i])
                    ELSE <<spaced[i]>>])

html(val) == htmlStr(String(val))

(***************************************************************************)
(* jsSlashEncoder, secureFilters.js, secureFilters.jsAttr                  *)
(***************************************************************************)
\* mutant: no leading zero for a one-digit code
jsSlashEncoder_NoPad(code) ==
    LET hex == toUpperCase(toString16(code))
    IN  IF code < 128
        THEN <<92, 120>> \o hex
        ELSE CASE Len(hex) = 2 -> <<92, 117, 48, 48>> \o hex
               [] Len(hex) = 3 -> <<92, 117, 48>> \o hex
               [] Len(hex) = 4 -> <<92, 117>> \o hex
               [] OTHER -> <<92, 117, 70, 70, 70, 68>>

jsSlashEncoder(code) ==
    LET hex == toUpperCase(toString16(code))
    IN  IF code < 128
        THEN IF Len(hex) = 1 THEN <<92, 120, 48>> \o hex ELSE <<92, 120>> \o hex
        ELSE CASE Len(hex) = 2 -> <<92, 117, 48, 48>> \o hex
               [] Len(hex) = 3 -> <<92, 117, 48>> \o hex
               [] Len(hex) = 4 -> <<92, 117>> \o hex
               [] OTHER -> <<92, 117, 70, 70, 70, 68>>    \* \uFFFD

\* str.replace(JS_NOT_WHITELISTED, jsSlashEncoder)
jsStr(str) ==
    Flatten([i \in 1..Len(str) |->
                IF JS_NOT_WHITELISTED(str[i]) THEN jsSlashEncoder(str[i]) ELSE <<str[i]>>])

js(val) == jsStr(String(val))

\* mutant: the two encoders composed in the other order
jsAttr_HtmlFirst(val) == js(StrVal(html(val)))

jsAttr(val) == html(StrVal(js(val)))

(***************************************************************************)
(* secureFilters.css, secureFilters.style                                  *)
(***************************************************************************)
\* mutant: the space that ends the escape left out
cssEscape_NoSpace(code) ==
    IF code = 0
    THEN <<92, 102, 102, 102, 100>>
    ELSE <<92>> \o toLowerCase(toString16(code))

cssEscape(code) ==
    IF code = 0
    THEN <<92, 102, 102, 102, 100, 32>>                   \* \fffd and a space
    ELSE <<92>> \o toLowerCase(toString16(code)) \o <<32>>

\* str.replace(CSS_NOT_WHITELISTED, function ...)
cssStr(str) ==
    Flatten([i \in 1..Len(str) |->
                IF CSS_NOT_WHITELISTED(str[i]) THEN cssEscape(str[i]) ELSE <<str[i]>>])

css(val) == cssStr(String(val))

\* mutant: the two encoders composed in the other order
style_HtmlFirst(val) == css(StrVal(html(val)))

style(val) == html(StrVal(css(val)))

(***************************************************************************)
(* The platform primitives the module calls.  Platforms differ in two      *)
(* places the encoders can observe:                                        *)
(*   "es5"     encodeURIComponent as ECMA-262 specifies it; JSON.stringify *)
(*             copies an unpaired surrogate half as it is                  *)
(*   "es2019"  as es5, but JSON.stringify writes an unpaired surrogate     *)
(*             half as a lowercase \\udXXX escape (well-formed stringify)  *)
(*   "ie"      as es5, but encodeURIComponent leaves the double quote raw  *)
(*             (the platform defect the comment in uri is about)           *)
(***************************************************************************)
Platforms == {"es5", "es2019", "ie"}

IsHigh(c) == c \in 55296..56319
IsLow(c) == c \in 56320..57343

IsAlnum(c) == c \in 48..57 \/ c \in 65..90 \/ c \in 97..122

\* uriUnescaped of ECMA-262: alphanumerics and - _ . ! ~ * ' ( )
uriUnescaped(c, p) ==
    \/ IsAlnum(c)
    \/ c \in {45, 95, 46, 33, 126, 42, 39, 40, 41}
    \/ (p = "ie" /\ c = 34)

\* the UTF-8 octets of code point v
UTF8(v) ==
    IF v < 128 THEN <<v>>
    ELSE IF v < 2048 THEN <<192 + (v \div 64), 128 + (v % 64)>>
    ELSE IF v < 65536
         THEN <<224 + (v \div 4096), 128 + ((v \div 64) % 64), 128 + (v % 64)>>
    ELSE <<240 + (v \div 262144), 128 + ((v \div 4096) % 64),
           128 + ((v \div 64) % 64), 128 + (v % 64)>>

\* '%' and the two uppercase hexadecimal digits of octet b
PercentOctet(b) == <<37>> \o toUpperCase(<<Digit(b \div 16), Digit(b % 16)>>)

PercentOctets(bs) == Flatten([i \in 1..Len(bs) |-> PercentOctet(bs[i])])

\* Encode(string, unescapedSet) of ECMA-262 from index k on: a record
\* [ok |-> TRUE, str |-> ...], or [ok |-> FALSE] where it throws URIError.
\* The loop of the algorithm, index by index: a code unit of the unescaped
\* set is kept; a high surrogate half needs a low one after it and the two are
\* written as the octets of their code point; a low half is reached by the
\* loop, and throws, unless the half before it is a high one; every other
\* code unit is written as its octets
Encode(s, k, p) ==
    LET paired(i) == i > k /\ IsHigh(s[i - 1])
        throws(i) ==
            /\ ~ uriUnescaped(s[i], p)
            /\ \/ IsLow(s[i]) /\ ~ paired(i)
               \/ IsHigh(s[i]) /\ (i + 1 > Len(s) \/ ~ IsLow(s[i + 1]))
        written(i) ==
            IF uriUnescaped(s[i], p) THEN <<s[i]>>
            ELSE IF IsLow(s[i]) THEN <<>>
            ELSE IF ~ IsHigh(s[i]) THEN PercentOctets(UTF8(s[i]))
            ELSE PercentOctets(UTF8((s[i] - 55296) * 1024 + (s[i + 1] - 56320) + 65536))
    IN  IF \E i \in k..Len(s) : throws(i) THEN [ok |-> FALSE, str |-> <<>>]
        ELSE [ok |-> TRUE, str |-> Flatten([j \in 1..(Len(s) + 1 - k) |-> written(j + k - 1)])]

encodeURIComponent(s, p) == Encode(s, 1, p)

(***************************************************************************)
(* secureFilters.uri                                                       *)
(***************************************************************************)
\* the one character each of these regular expressions matches
QUOT == 34
APOS == 39
AST == 42
TILDE == 126
BANG == 33
LPAREN == 40
RPAREN == 41

\* mutant: the tilde left to the platform's primitive
uriPost_NoTilde(encode) ==
    replace(replace(replace(replace(replace(replace(encode,
        BANG, <<37, 50, 49>>),
        QUOT, <<37, 50, 55>>),
        APOS, <<37, 50, 55>>),
        LPAREN, <<37, 50, 56>>),
        RPAREN, <<37, 50, 57>>),
        AST, <<37, 50, 65>>)

uriPost(encode) ==
    replace(replace(replace(replace(replace(replace(replace(encode,
        BANG, <<37, 50, 49>>),          \* '%21'
        QUOT, <<37, 50, 55>>),          \* '%27'
        APOS, <<37, 50, 55>>),          \* '%27'
        LPAREN, <<37, 50, 56>>),        \* '%28'
        RPAREN, <<37, 50, 57>>),        \* '%29'
        AST, <<37, 50, 65>>),           \* '%2A'
        TILDE, <<37, 55, 69>>)          \* '%7E'

\* [ok |-> TRUE, str |-> the result], or [ok |-> FALSE] where URIError escapes
uri(val, p) ==
    LET encode == encodeURIComponent(String(val), p)
    IN  IF encode.ok THEN [ok |-> TRUE, str |-> uriPost(encode.str)] ELSE encode

(***************************************************************************)
(* secureFilters.uri of the earlier release: a loop over the octets of     *)
(* new Buffer(String(val), 'utf8')                                         *)
(***************************************************************************)
\* the octets Buffer writes for s from index k on; an unpaired surrogate half
\* becomes the octets of U+FFFD
RECURSIVE BufferUtf8(_, _)
BufferUtf8(s, k) ==
    IF k > Len(s) THEN <<>>
    ELSE IF IsHigh(s[k]) /\ k < Len(s) /\ IsLow(s[k + 1])
         THEN UTF8((s[k] - 55296) * 1024 + (s[k + 1] - 56320) + 65536)
                  \o BufferUtf8(s, k + 2)
    ELSE IF IsHigh(s[k]) \/ IsLow(s[k]) THEN <<239, 191, 189>> \o BufferUtf8(s, k + 1)
    ELSE UTF8(s[k]) \o BufferUtf8(s, k + 1)

uri_ByteLoop(val) ==
    LET bytes == BufferUtf8(String(val), 1)
    IN  Flatten([i \in 1..Len(bytes) |->
            LET c == bytes[i]
            IN  IF \/ c \in 48..57          \* 0 .. 9
                   \/ c \in 65..90          \* A .. Z
                   \/ c \in 97..122         \* a .. z
                   \/ c = 45                \* -
                   \/ c = 46                \* .
                   \/ c = 95                \* _
                THEN <<c>>
                ELSE (IF c < 16 THEN <<37, 48>> ELSE <<37>>)
                         \o toUpperCase(toString16(c))])

(***************************************************************************)
(* JSON.stringify (ECMA-262 SerializeJSONProperty, no indent, no replacer) *)
(***************************************************************************)
\* the text QuoteJSONString writes for the code unit at index i of s
QuoteUnit(s, i, p) ==
    LET c == s[i]
        paired == \/ (IsHigh(c) /\ i < Len(s) /\ IsLow(s[i + 1]))
                  \/ (IsLow(c) /\ i > 1 /\ IsHigh(s[i - 1]))
        hex == toString16(c)
    IN  CASE c = 8 -> <<92, 98>>
          [] c = 9 -> <<92, 116>>
          [] c = 10 -> <<92, 110>>
          [] c = 12 -> <<92, 102>>
          [] c = 13 -> <<92, 114>>
          [] c = 34 -> <<92, 34>>
          [] c = 92 -> <<92, 92>>
          [] c < 32 /\ c \notin {8, 9, 10, 12, 13} ->
                <<92, 117, 48, 48>> \o (IF Len(hex) = 1 THEN <<48>> ELSE <<>>) \o hex
          [] (IsHigh(c) \/ IsLow(c)) /\ ~ paired /\ p = "es2019" -> <<92, 117>> \o hex
          [] OTHER -> <<c>>

QuoteJSONString(s, p) ==
    <<34>> \o Flatten([i \in 1..Len(s) |-> QuoteUnit(s, i, p)]) \o <<34>>

\* SerializeJSONProperty: [threw |-> TRUE] where it raises TypeError (a cyclic
\* structure), otherwise the text, or defined |-> FALSE where the result is
\* undefined (the value is undefined or a function)
RECURSIVE SerializeJSONProperty(_, _)
SerializeJSONProperty(val, p) ==
    CASE val.kind = "string" ->
            [threw |-> FALSE, defined |-> TRUE, str |-> QuoteJSONString(val.str, p)]
      [] val.kind \in {"number", "boolean"} ->
            [threw |-> FALSE, defined |-> TRUE, str |-> val.str]
      [] val.kind = "null" ->
            [threw |-> FALSE, defined |-> TRUE, str |-> <<110, 117, 108, 108>>]
      [] val.kind \in {"undefined", "function"} ->
            [threw |-> FALSE, defined |-> FALSE, str |-> <<>>]
      [] val.kind = "cyclic" ->
            [threw |-> TRUE, defined |-> FALSE, str |-> <<>>]
      \* SerializeJSONArray: an undefined element is written null
      [] val.kind = "array" ->
            LET parts == [i \in 1..Len(val.items) |->
                            SerializeJSONProperty(val.items[i], p)]
            IN  IF \E i \in 1..Len(parts) : parts[i].threw
                THEN [threw |-> TRUE, defined |-> FALSE, str |-> <<>>]
                ELSE [threw |-> FALSE, defined |-> TRUE,
                      str |-> <<91>> \o join([i \in 1..Len(parts) |->
                                                IF parts[i].defined THEN parts[i].str
                                                ELSE <<110, 117, 108, 108>>],
                                             <<44>>) \o <<93>>]
      \* SerializeJSONObject: a member whose value is undefined is left out
      [] val.kind = "object" ->
            LET parts == [i \in 1..Len(val.vals) |->
                            SerializeJSONProperty(val.vals[i], p)]
                kept == SelectSeq([i \in 1..Len(parts) |-> i],
                                  LAMBDA i : parts[i].defined)
            IN  IF \E i \in 1..Len(parts) : parts[i].threw
                THEN [threw |-> TRUE, defined |-> FALSE, str |-> <<>>]
                ELSE [threw |-> FALSE, defined |-> TRUE,
                      str |-> <<123>> \o join([k \in 1..Len(kept) |->
                                                 QuoteJSONString(val.keys[kept[k]], p)
                                                     \o <<58>> \o parts[kept[k]].str],
                                              <<44>>) \o <<125>>]

\* JSON.stringify(val): [threw |-> TRUE] where it raises TypeError, otherwise
\* the value it returns, a string or undefined
JSONstringify(val, p) ==
    LET r == SerializeJSONProperty(val, p)
    IN  [threw |-> r.threw,
         val |-> IF r.defined THEN StrVal(r.str) ELSE UndefinedVal]

(***************************************************************************)
(* secureFilters.json, secureFilters.jsObj                                 *)
(***************************************************************************)
\* pat occurs in s at index i, compared as a /i regular expression compares
StartsAtCI(s, i, pat) ==
    /\ i + Len(pat) - 1 <= Len(s)
    /\ toUpperCase(SubSeq(s, i, i + Len(pat) - 1)) = toUpperCase(pat)

\* mutant: the regular expression of the previous release, /\]\]>/g
CDATA_CLOSE_Legacy(s, i) == IF StartsAtCI(s, i, <<93, 93, 62>>) THEN 3 ELSE 0

\* /\]\](?:>|\\x3E|\\u003E)/gi : the length of the match that starts at
\* index i of s, 0 when there is none
CDATA_CLOSE(s, i) ==
    IF StartsAtCI(s, i, <<93, 93, 62>>) THEN 3
    ELSE IF StartsAtCI(s, i, <<93, 93, 92, 120, 51, 69>>) THEN 6
    ELSE IF StartsAtCI(s, i, <<93, 93, 92, 117, 48, 48, 51, 69>>) THEN 8
    ELSE 0

\* str.replace(CDATA_CLOSE, repl) from index i on: leftmost matches, scanned
\* left to right. A match begins with ]] and goes on with characters that are
\* not ], so no match begins inside another one: every place where the
\* expression matches is replaced, and the code units a match covers go
replaceCdataClose(s, i, repl) ==
    LET match(k) == IF s[k] = 93 THEN CDATA_CLOSE(s, k) ELSE 0
        covered(k) == \E j \in (k - 7)..(k - 1) : j >= i /\ match(j) > k - j
    IN  Flatten([n \in 1..(Len(s) + 1 - i) |->
                    LET k == n + i - 1
                    IN  IF match(k) > 0 THEN repl
                        ELSE IF covered(k) THEN <<>>
                        ELSE <<s[k]>>])

\* '\\x5D\\x5D\\x3E'
CdataCloseEscaped == <<92, 120, 53, 68, 92, 120, 53, 68, 92, 120, 51, 69>>

\* str.replace(JSON_NOT_WHITELISTED, jsSlashEncoder).replace(CDATA_CLOSE, ...)
jsonStr(str) ==
    replaceCdataClose(
        Flatten([i \in 1..Len(str) |->
                    IF JSON_NOT_WHITELISTED(str[i]) THEN jsSlashEncoder(str[i])
                    ELSE <<str[i]>>]),
        1, CdataCloseEscaped)

json(val) == jsonStr(String(val))

\* the previous release: JSON.stringify(val).replace(CDATA_CLOSE, ...)
\* .replace(LT, '\\x3C').replace(GT, '\\x3E'), CDATA_CLOSE being /\]\]>/g
replaceCdataClose_Previous(s, i) ==
    LET at(k) == StartsAt(s, k, <<93, 93, 62>>)
    IN  Flatten([n \in 1..(Len(s) + 1 - i) |->
                    LET k == n + i - 1
                    IN  IF at(k) THEN CdataCloseEscaped
                        ELSE IF (k - 1 >= i /\ at(k - 1)) \/ (k - 2 >= i /\ at(k - 2))
                             THEN <<>>
                        ELSE <<s[k]>>])

jsObj_Previous(val, p) ==
    LET text == JSONstringify(val, p)
    IN  IF text.threw \/ text.val.kind = "undefined"
        THEN [ok |-> FALSE, str |-> <<>>]
        ELSE [ok |-> TRUE,
              str |-> replace(replace(replaceCdataClose_Previous(text.val.str, 1),
                                      60, <<92, 120, 51, 67>>),
                              62, <<92, 120, 51, 69>>)]

\* mutant: the TypeError of JSON.stringify caught and null written instead
jsObj_Swallow(val, p) ==
    LET text == JSONstringify(val, p)
    IN  IF text.threw THEN [ok |-> TRUE, str |-> <<110, 117, 108, 108>>]
        ELSE [ok |-> TRUE, str |-> json(text.val)]

\* [ok |-> TRUE, str |-> the result], or [ok |-> FALSE] where the TypeError of
\* JSON.stringify escapes
jsObj(val, p) ==
    LET text == JSONstringify(val, p)
    IN  IF text.threw THEN [ok |-> FALSE, str |-> <<>>]
        ELSE [ok |-> TRUE, str |-> json(text.val)]

(***************************************************************************)
(* Inputs.  Units holds one code unit of every class the tables tell       *)
(* apart; Phrases the longer sequences an encoder treats as a whole; Core  *)
(* the fragments whose treatment depends on their neighbours (the CDATA    *)
(* close sequence, surrogate halves, JSON quoting).  A string argument is  *)
(* a unit, a phrase, or the concatenation of at most MaxParts core         *)
(* fragments.                                                              *)
(***************************************************************************)
Units ==
    { <<0>>,          \* NUL
      <<8>>,          \* backspace
      <<9>>,          \* tab
      <<10>>,         \* line feed
      <<11>>,         \* vertical tab
      <<12>>,         \* form feed
      <<13>>,         \* carriage return
      <<31>>,         \* the last C0 control
      <<32>>,         \* space
      <<33>>,         \* !
      <<34>>,         \* "
      <<37>>,         \* %
      <<38>>,         \* &
      <<39>>,         \* '
      <<43>>,         \* +
      <<44>>,         \* ,
      <<45>>,         \* -
      <<46>>,         \* .
      <<47>>,         \* /
      <<48>>,         \* 0
      <<58>>,         \* :
      <<60>>,         \* <
      <<61>>,         \* =
      <<62>>,         \* >
      <<65>>,         \* A
      <<91>>,         \* [
      <<92>>,         \* backslash
      <<93>>,         \* ]
      <<95>>,         \* _
      <<96>>,         \* `
      <<99>>,         \* c
      <<100>>,        \* d
      <<122>>,        \* z
      <<123>>,        \* {
      <<126>>,        \* ~
      <<127>>,        \* DEL
      <<128>>,        \* the first C1 control
      <<159>>,        \* the last C1 control
      <<160>>,        \* NO-BREAK SPACE
      <<161>>,        \* U+00A1
      <<233>>,        \* U+00E9
      <<916>>,        \* U+0394
      <<8232>>,       \* U+2028 LINE SEPARATOR
      <<8233>>,       \* U+2029 PARAGRAPH SEPARATOR
      <<9731>>,       \* U+2603 SNOWMAN
      <<55296>>,      \* U+D800, the first high surrogate half
      <<57343>>,      \* U+DFFF, the last low surrogate half
      <<65535>> }     \* U+FFFF

Phrases ==
    { <<55357, 56886>>,                       \* U+1F636 as a surrogate pair
      <<93, 93, 62>>,                         \* ]]>
      <<93, 93, 93, 62>>,                     \* ]]]>
      <<93, 93, 92, 88, 51, 101>>,            \* ]]\X3e
      <<93, 93, 92, 117, 48, 48, 51, 101>>,   \* ]]\u003e
      <<60, 119, 111, 119, 62>>,              \* <wow>
      \* <ha>, 'ha', "ha"
      <<60, 104, 97, 62, 44, 32, 39, 104, 97, 39, 44, 32, 34, 104, 97, 34>>,
      <<38, 38, 97, 109, 112, 59, 39, 100>>,  \* &&amp;'d
      <<37, 51, 67>>,                         \* %3C
      <<91, 49, 44, 32, 34, 60, 34, 93>>,     \* [1, "<"]
      <<92, 120, 53, 67>>,                    \* \x5C
      <<60, 47, 115, 99, 114, 105, 112, 116, 62>> }   \* </script>

Core ==
    { <<93>>,                                 \* ]
      <<62>>,                                 \* >
      <<92>>,                                 \* backslash
      <<34>>,                                 \* "
      <<55357>>,                              \* U+D83D, a high surrogate half
      <<56886>>,                              \* U+DE36, a low surrogate half
      <<97>> }                                \* a

RECURSIVE CoreStrings(_)
CoreStrings(n) ==
    IF n = 0 THEN {<<>>}
    ELSE LET shorter == CoreStrings(n - 1)
         IN  shorter \cup {s \o f : s \in shorter, f \in Core}

Strings == Units \cup Phrases \cup CoreStrings(MaxParts)

\* the strings put inside arrays and objects: the units and the phrases of at
\* most MaxMember code units
MaxMember == 9

Members ==
    Units \cup {s \in Phrases : Len(s) <= MaxMember} \cup CoreStrings(1)

\* the source text of function () {}
EmptyFunction == FunctionVal(<<102, 117, 110, 99, 116, 105, 111, 110, 32, 40, 41, 32, 123, 125>>)

\* values JSON has no text for, alone and inside an array or an object
NotSerializable ==
    { UndefinedVal, EmptyFunction, CyclicVal,
      ArrVal(<<StrVal(<<97>>), UndefinedVal, EmptyFunction>>),
      ArrVal(<<StrVal(<<97>>), CyclicVal>>),
      ObjVal(<< <<97>>, <<98>>, <<99>> >>, <<EmptyFunction, NumVal(<<49>>), UndefinedVal>>),
      ObjVal(<< <<97>>, <<98>> >>, <<NumVal(<<49>>), CyclicVal>>) }

\* numbers, by the text Number::toString renders: 1234, 1234.5678, -1.5e-7, 1e+21
Numbers ==
    { NumVal(<<49, 50, 51, 52>>),
      NumVal(<<49, 50, 51, 52, 46, 53, 54, 55, 56>>),
      NumVal(<<45, 49, 46, 53, 101, 45, 55>>),
      NumVal(<<49, 101, 43, 50, 49>>) }

Values ==
    {StrVal(s) : s \in Strings}
      \cup Numbers
      \cup {BoolVal(<<116, 114, 117, 101>>), BoolVal(<<102, 97, 108, 115, 101>>), NullVal}
      \cup NotSerializable
      \cup {ArrVal(<<>>), ObjVal(<<>>, <<>>),
            ArrVal(<<NumVal(<<49, 101, 43, 50, 49>>), NullVal, BoolVal(<<102, 97, 108, 115, 101>>)>>)}
      \cup {ArrVal(<<StrVal(s)>>) : s \in Members}
      \cup {ArrVal(<<ArrVal(<<ArrVal(<<StrVal(s)>>)>>), ArrVal(<<StrVal(<<97>>)>>)>>) :
                s \in Members}
      \cup {ObjVal(<<s>>, <<StrVal(s)>>) : s \in Members}

(***************************************************************************)
(* The state of the module: its global /g regular expressions, each with a *)
(* lastIndex, and the list of filter names configure installs.             *)
(***************************************************************************)
RegExps ==
    { "QUOT", "APOS", "AST", "TILDE", "BANG", "LPAREN", "RPAREN", "CDATA_CLOSE",
      "JS_NOT_WHITELISTED", "JSON_NOT_WHITELISTED", "HTML_CONTROL",
      "HTML_NOT_WHITELISTED", "CSS_NOT_WHITELISTED" }

\* the regular expressions each function hands to String.prototype.replace
Uses(name) ==
    CASE name = "html" -> {"HTML_CONTROL", "HTML_NOT_WHITELISTED"}
      [] name = "js" -> {"JS_NOT_WHITELISTED"}
      [] name = "jsAttr" -> {"JS_NOT_WHITELISTED", "HTML_CONTROL", "HTML_NOT_WHITELISTED"}
      [] name = "uri" -> {"BANG", "QUOT", "APOS", "LPAREN", "RPAREN", "AST", "TILDE"}
      [] name \in {"json", "jsObj"} -> {"JSON_NOT_WHITELISTED", "CDATA_CLOSE"}
      [] name = "css" -> {"CSS_NOT_WHITELISTED"}
      [] name = "style" -> {"CSS_NOT_WHITELISTED", "HTML_CONTROL", "HTML_NOT_WHITELISTED"}

\* mutant: a regular expression left where its last match ended
replaced_Sticky(name) == [r \in RegExps |-> IF r \in Uses(name) THEN 1 ELSE lastIndex[r]]

\* lastIndex after the replace passes of the function called name:
\* String.prototype.replace leaves the lastIndex of a /g expression at 0
replaced(name) == [r \in RegExps |-> IF r \in Uses(name) THEN 0 ELSE lastIndex[r]]

TO_CONFIGURE == <<"html", "js", "jsAttr", "uri", "jsObj", "css", "style">>

\* mutant: json, the eighth filter, installed as well
configure_WithJson(obj) ==
    [id |-> obj.id,
     version |-> obj.version,
     filtersId |-> IF obj.filtersId \in {"undefined", "null"} THEN "fresh" ELSE obj.filtersId,
     filters |-> [n \in DOMAIN obj.filters |->
                    IF n = "json" \/ \E i \in 1..Len(TO_CONFIGURE) : TO_CONFIGURE[i] = n
                    THEN n
                    ELSE obj.filters[n]]]

\* mutant: a new filters map put in the place of the one given
configure_NewMap(obj) ==
    [id |-> obj.id,
     version |-> obj.version,
     filtersId |-> "fresh",
     filters |-> [n \in DOMAIN obj.filters |->
                    IF \E i \in 1..Len(TO_CONFIGURE) : TO_CONFIGURE[i] = n
                    THEN n
                    ELSE "absent"]]

\* secureFilters.configure: the object obj after the call, which is also the
\* object returned.  An object is a record: id, its identity; version, a
\* property other than filters; filtersId, the identity of its filters map
\* ("undefined" or "null" where it has none, "given" for the caller's map,
\* "fresh" for the one configure made); filters, the binding of each name in
\* the map: "absent", "user" for a function of the caller, or the name of the
\* function of secureFilters it is bound to
configure(obj) ==
    [id |-> obj.id,
     version |-> obj.version,
     \* ejs.filters = ejs.filters || {}
     filtersId |-> IF obj.filtersId \in {"undefined", "null"} THEN "fresh" ELSE obj.filtersId,
     \* ejs.filters[filterName] = secureFilters[filterName]
     filters |-> [n \in DOMAIN obj.filters |->
                    IF \E i \in 1..Len(TO_CONFIGURE) : TO_CONFIGURE[i] = n
                    THEN n
                    ELSE obj.filters[n]]]

\* the names a filters map can hold: the module's eight filters and one more
FilterNames == {"html", "js", "jsAttr", "uri", "json", "jsObj", "css", "style"}
Names == FilterNames \cup {"custom"}

Absent == [n \in Names |-> "absent"]

\* the objects handed to configure: without a filters map, with a null one,
\* with an empty one, with a map holding a filter of the caller, and with a
\* map in which the caller has bound html and json too
EjsObjects ==
    { [id |-> "ejs", version |-> "0.8.4", filtersId |-> "undefined", filters |-> Absent],
      [id |-> "ejs", version |-> "0.8.4", filtersId |-> "null", filters |-> Absent],
      [id |-> "ejs", version |-> "0.8.4", filtersId |-> "given", filters |-> Absent],
      [id |-> "ejs", version |-> "0.8.4", filtersId |-> "given",
       filters |-> [Absent EXCEPT !["custom"] = "user"]],
      [id |-> "ejs", version |-> "0.8.4", filtersId |-> "given",
       filters |-> [Absent EXCEPT !["custom"] = "user", !["html"] = "user",
                                  !["json"] = "user"]] }

\* a call as the history keeps it
NoCall == [fn |-> "none", arg |-> NullVal, result |-> <<>>, threw |-> "none"]

(***************************************************************************)
(* The state machine: a value and a platform are given; each action is one *)
(* call of an encoder on the value, leaving its return value in result, or *)
(* the error it raised in threw.                                           *)
(***************************************************************************)
Init ==
    /\ arg \in Values
    /\ platform \in Platforms
    /\ fn = "none"
    /\ result = <<>>
    /\ threw = "none"
    /\ lastIndex = [r \in RegExps |-> 0]
    /\ ejs = [id |-> "ejs", version |-> "0.8.4", filtersId |-> "undefined", filters |-> Absent]
    /\ given = ejs
    /\ returned = "none"
    /\ earlier = NoCall

Html ==
    /\ fn' = "html"
    /\ result' = html(arg)
    /\ threw' = "none"
    /\ lastIndex' = replaced("html")
    /\ UNCHANGED <<arg, platform, ejs, given, returned, earlier>>

Js ==
    /\ fn' = "js"
    /\ result' = js(arg)
    /\ threw' = "none"
    /\ lastIndex' = replaced("js")
    /\ UNCHANGED <<arg, platform, ejs, given, returned, earlier>>

JsAttr ==
    /\ fn' = "jsAttr"
    /\ result' = jsAttr(arg)
    /\ threw' = "none"
    /\ lastIndex' = replaced("jsAttr")
    /\ UNCHANGED <<arg, platform, ejs, given, returned, earlier>>

\* encodeURIComponent raises URIError on an unpaired surrogate half, and uri
\* lets it through
Uri ==
    /\ fn' = "uri"
    /\ result' = (IF uri(arg, platform).ok THEN uri(arg, platform).str ELSE <<>>)
    /\ threw' = (IF uri(arg, platform).ok THEN "none" ELSE "URIError")
    /\ lastIndex' = (IF uri(arg, platform).ok THEN replaced("uri") ELSE lastIndex)
    /\ UNCHANGED <<arg, platform, ejs, given, returned, earlier>>

Json ==
    /\ fn' = "json"
    /\ result' = json(arg)
    /\ threw' = "none"
    /\ lastIndex' = replaced("json")
    /\ UNCHANGED <<arg, platform, ejs, given, returned, earlier>>

\* JSON.stringify raises TypeError on a cyclic structure, and jsObj lets it
\* through
JsObj ==
    /\ fn' = "jsObj"
    /\ result' = (IF jsObj(arg, platform).ok THEN jsObj(arg, platform).str ELSE <<>>)
    /\ threw' = (IF jsObj(arg, platform).ok THEN "none" ELSE "TypeError")
    /\ lastIndex' = (IF jsObj(arg, platform).ok THEN replaced("jsObj") ELSE lastIndex)
    /\ UNCHANGED <<arg, platform, ejs, given, returned, earlier>>

Css ==
    /\ fn' = "css"
    /\ result' = css(arg)
    /\ threw' = "none"
    /\ lastIndex' = replaced("css")
    /\ UNCHANGED <<arg, platform, ejs, given, returned, earlier>>

Style ==
    /\ fn' = "style"
    /\ result' = style(arg)
    /\ threw' = "none"
    /\ lastIndex' = replaced("style")
    /\ UNCHANGED <<arg, platform, ejs, given, returned, earlier>>

Next ==
    \/ Html
    \/ Js
    \/ JsAttr
    \/ Uri
    \/ Json
    \/ JsObj
    \/ Css
    \/ Style

Spec == Init /\ [][Next]_vars

(***************************************************************************)
(* A session with the module: calls follow one another on values the       *)
(* caller picks, configure among them.  earlier keeps one of the calls     *)
(* made so far, whichever, to compare later calls with.                    *)
(***************************************************************************)
\* ]]>, an unpaired surrogate half, 1234 and an object that holds itself
SessionValues ==
    { StrVal(<<93, 93, 62>>), StrVal(<<55296>>), NumVal(<<49, 50, 51, 52>>), CyclicVal }

SessionInit ==
    /\ arg \in SessionValues
    /\ platform \in Platforms
    /\ fn = "none"
    /\ result = <<>>
    /\ threw = "none"
    /\ lastIndex = [r \in RegExps |-> 0]
    /\ ejs \in EjsObjects
    /\ given = ejs
    /\ returned = "none"
    /\ earlier = NoCall

\* the caller picks the value of the next call
NextArgument ==
    /\ arg' \in SessionValues
    /\ earlier' \in {earlier, [fn |-> fn, arg |-> arg, result |-> result, threw |-> threw]}
    /\ fn' = "none"
    /\ result' = <<>>
    /\ threw' = "none"
    /\ UNCHANGED <<platform, lastIndex, ejs, given, returned>>

Configure ==
    /\ fn' = "configure"
    /\ ejs' = configure(ejs)
    /\ returned' = configure(ejs).id
    /\ result' = <<>>
    /\ threw' = "none"
    /\ UNCHANGED <<arg, platform, lastIndex, given, earlier>>

SessionNext ==
    \/ Html
    \/ Js
    \/ JsAttr
    \/ Uri
    \/ Json
    \/ JsObj
    \/ Css
    \/ Style
    \/ Configure
    \/ NextArgument

SessionSpec == SessionInit /\ [][SessionNext]_vars

(***************************************************************************)
(* Character classes and digit strings as the claims word them.            *)
(***************************************************************************)
UpperHexDigits == <<48, 49, 50, 51, 52, 53, 54, 55, 56, 57, 65, 66, 67, 68, 69, 70>>

LowerHexDigits == <<48, 49, 50, 51, 52, 53, 54, 55, 56, 57, 97, 98, 99, 100, 101, 102>>

IsUpperHex(c) == c \in 48..57 \/ c \in 65..70

IsDecimal(c) == c \in 48..57

IsLetterOrDigit(c) == c \in 48..57 \/ c \in 65..90 \/ c \in 97..122

\* the argument as the string the encoders work on
Input == String(arg)

\* s[i..] is '#', one or more decimal digits, ';'  /  '#x', hex digits, ';'
RECURSIVE DigitsThenSemi(_, _, _, _)
DigitsThenSemi(s, i, hex, seen) ==
    IF i > Len(s) THEN FALSE
    ELSE IF s[i] = 59 THEN seen
    ELSE IF (IF hex THEN IsUpperHex(s[i]) ELSE IsDecimal(s[i]))
         THEN DigitsThenSemi(s, i + 1, hex, TRUE)
    ELSE FALSE

\* an entity html emits starts at index i of s
EntityAt(s, i) ==
    \/ StartsAt(s, i, <<38, 113, 117, 111, 116, 59>>)
    \/ StartsAt(s, i, <<38, 97, 109, 112, 59>>)
    \/ StartsAt(s, i, <<38, 108, 116, 59>>)
    \/ StartsAt(s, i, <<38, 103, 116, 59>>)
    \/ (StartsAt(s, i, <<38, 35, 120>>) /\ DigitsThenSemi(s, i + 3, TRUE, FALSE))
    \/ (StartsAt(s, i, <<38, 35>>) /\ DigitsThenSemi(s, i + 2, FALSE, FALSE))

\* C1: html(s) holds no '<', '>', double quote or apostrophe, no code unit in
\* 0x00-0x08, 0x0B, 0x0C, 0x0E-0x1F or 0x7F-0x9F, and every '&' in it begins
\* one of the entities &quot; &amp; &lt; &gt; &#D; &#xH;
C1_HtmlNoForbidden ==
    fn = "html" =>
        /\ \A i \in 1..Len(result) :
              /\ result[i] \notin {60, 62, 34, 39}
              /\ result[i] \notin (0..8) \cup {11, 12} \cup (14..31) \cup (127..159)
              /\ result[i] = 38 => EntityAt(result, i)

\* html has run on an input holding an ampersand, a quote, an angle bracket
\* or a control character
C1_Witness ==
    /\ fn = "html"
    /\ arg = StrVal(<<60, 47, 115, 99, 114, 105, 112, 116, 62>>)
    /\ Contains(result, <<38, 108, 116, 59>>)

\* js output from index i on: whitelisted characters and \xHH / \uHHHH
RECURSIVE JsWellFormed(_, _)
JsWellFormed(s, i) ==
    IF i > Len(s) THEN TRUE
    ELSE IF s[i] \in {44, 45, 46, 95} \/ IsLetterOrDigit(s[i]) THEN JsWellFormed(s, i + 1)
    ELSE IF s[i] # 92 \/ i + 1 > Len(s) THEN FALSE
    ELSE IF s[i + 1] = 120
         THEN /\ i + 3 <= Len(s)
              /\ \A k \in 2..3 : IsUpperHex(s[i + k])
              /\ JsWellFormed(s, i + 4)
    ELSE IF s[i + 1] = 117
         THEN /\ i + 5 <= Len(s)
              /\ \A k \in 2..5 : IsUpperHex(s[i + k])
              /\ JsWellFormed(s, i + 6)
    ELSE FALSE

\* C2: js(s) is made only of , - . _ 0-9 A-Z a-z and of well-formed \xHH and
\* \uHHHH escapes; every backslash in it starts such an escape
C2_JsOnlyWhitelistAndEscapes == fn = "js" => JsWellFormed(result, 1)

\* js has run on an input with a quote, a backslash and non-ASCII units
C2_Witness ==
    /\ fn = "js"
    /\ arg = StrVal(<<34, 92, 55357>>)
    /\ result = <<92, 120, 50, 50, 92, 120, 53, 67, 92, 117, 68, 56, 51, 68>>

(***************************************************************************)
(* json / jsObj and the CDATA close sequence.                              *)
(***************************************************************************)
\* the code unit at index k of s, -1 outside s
At(s, k) == IF k \in 1..Len(s) THEN s[k] ELSE -1

\* the JSON text json works on: its argument, or what jsObj serialized
JsonText == IF fn = "jsObj" THEN String(JSONstringify(arg, platform).val) ELSE Input

\* what became of each ']' of the input, read off the output in order:
\* "kept" for a raw ']', "escaped" for \x5D
RECURSIVE BracketsOut(_, _)
BracketsOut(s, i) ==
    IF i > Len(s) THEN <<>>
    ELSE IF s[i] = 93 THEN <<"kept">> \o BracketsOut(s, i + 1)
    ELSE IF StartsAt(s, i, <<92, 120, 53, 68>>) THEN <<"escaped">> \o BracketsOut(s, i + 4)
    ELSE BracketsOut(s, i + 1)

\* the length of the '>' that stands at index k of s: 1 for a raw '>'; when
\* escaped holds, 4 for \x3E and 6 for \u003E in either letter case; else 0
GtLen(s, k, escaped) ==
    IF At(s, k) = 62 THEN 1
    ELSE IF /\ escaped
            /\ At(s, k) = 92 /\ At(s, k + 1) \in {120, 88}
            /\ At(s, k + 2) = 51 /\ At(s, k + 3) \in {69, 101} THEN 4
    ELSE IF /\ escaped
            /\ At(s, k) = 92 /\ At(s, k + 1) \in {117, 85}
            /\ At(s, k + 2) = 48 /\ At(s, k + 3) = 48
            /\ At(s, k + 4) = 51 /\ At(s, k + 5) \in {69, 101} THEN 6
    ELSE 0

\* the ']' at index i of s is one of a "]]" that such a '>' follows
ClosesCdata(s, i, escaped) ==
    \/ (At(s, i + 1) = 93 /\ GtLen(s, i + 2, escaped) > 0)
    \/ (At(s, i - 1) = 93 /\ GtLen(s, i + 1, escaped) > 0)

InPair(s, i) == At(s, i + 1) = 93 \/ At(s, i - 1) = 93

\* what is said of each ']' of s from index i on: "escaped" in a "]]" before
\* '>', "kept" in any other "]]", nothing ("any") of a single ']'
RECURSIVE Brackets(_, _, _)
Brackets(s, i, escaped) ==
    IF i > Len(s) THEN <<>>
    ELSE IF s[i] = 93
         THEN << IF ClosesCdata(s, i, escaped) THEN "escaped"
                 ELSE IF InPair(s, i) THEN "kept" ELSE "any" >>
                  \o Brackets(s, i + 1, escaped)
    ELSE IF StartsAt(s, i, <<92, 120, 53, 68>>)
         THEN <<"escaped">> \o Brackets(s, i + 4, escaped)
    ELSE Brackets(s, i + 1, escaped)

Agree(expected, observed) ==
    /\ Len(expected) = Len(observed)
    /\ \A k \in 1..Len(expected) : expected[k] = "any" \/ expected[k] = observed[k]

NoAngleBracket(s) ==
    /\ \A i \in 1..Len(s) : s[i] \notin {60, 62}
    /\ ~ Contains(s, <<93, 93, 62>>)
    /\ ~ Contains(s, <<60, 47, 115, 99, 114, 105, 112, 116, 62>>)

\* C3 as written: jsObj(v) and json(t) hold no '<' and no '>', hence neither
\* ]]> nor </script>, and a "]]" that no '>' follows is left as it is
C3_AsWritten ==
    (fn \in {"json", "jsObj"} /\ threw = "none") =>
        /\ NoAngleBracket(result)
        /\ Agree(Brackets(JsonText, 1, FALSE), BracketsOut(result, 1))

\* C3 as amended: jsObj(v) and json(t) hold no '<' and no '>', hence neither
\* ]]> nor </script>, and a ']' of a "]]" is left as it is unless it is one of
\* the two ']' right before a '>', raw or already written \x3E or \u003E (in
\* either letter case)
C3_NoAngleBracketAmended ==
    (fn \in {"json", "jsObj"} /\ threw = "none") =>
        /\ NoAngleBracket(result)
        /\ Agree(Brackets(JsonText, 1, TRUE), BracketsOut(result, 1))

\* jsObj has serialized nested arrays whose string holds ]]> : the string's
\* brackets are escaped, the closing "]]" of the arrays is not
C3_Witness ==
    /\ fn = "jsObj"
    /\ arg = ArrVal(<<ArrVal(<<ArrVal(<<StrVal(<<93, 93, 93, 62>>)>>)>>),
                      ArrVal(<<StrVal(<<97>>)>>)>>)
    /\ BracketsOut(result, 1) = <<"kept", "escaped", "escaped", "kept", "kept", "kept", "kept">>

(***************************************************************************)
(* uri                                                                     *)
(***************************************************************************)
\* C4: where uri returns, its output holds only A-Z a-z 0-9 . _ % - and
\* every '%' is followed by exactly two uppercase hexadecimal digits
C4_UriAlphabet ==
    (fn = "uri" /\ threw = "none") =>
        \A i \in 1..Len(result) :
            /\ IsLetterOrDigit(result[i]) \/ result[i] \in {46, 95, 37, 45}
            /\ result[i] = 37 =>
                  /\ i + 2 <= Len(result)
                  /\ IsUpperHex(result[i + 1]) /\ IsUpperHex(result[i + 2])

\* uri has returned for an input the platform's primitive leaves raw
C4_Witness ==
    /\ fn = "uri" /\ threw = "none"
    /\ arg = StrVal(<<126>>)
    /\ result = <<37, 55, 69>>

(***************************************************************************)
(* The composites jsAttr and style.                                        *)
(***************************************************************************)
\* s with each backslash replaced by &#92;
BackslashAsEntity(s) ==
    Flatten([i \in 1..Len(s) |-> IF s[i] = 92 THEN <<38, 35, 57, 50, 59>> ELSE <<s[i]>>])

\* C5: jsAttr(v) is html(js(v)), which is js(v) with each backslash written
\* &#92; and nothing else changed
C5_JsAttrIsHtmlOfJs ==
    fn = "jsAttr" =>
        /\ result = html(StrVal(js(arg)))
        /\ result = BackslashAsEntity(js(arg))

\* jsAttr has run on an input both layers are sensitive to
C5_Witness ==
    /\ fn = "jsAttr"
    /\ arg = StrVal(<<60>>)
    /\ result = <<38, 35, 57, 50, 59, 120, 51, 67>>

\* C6: style(v) is html(css(v)); '<wow>' becomes '&#92;3c wow&#92;3e ', and
\* the output holds no raw backslash, quote, '<' or '>'
C6_StyleIsHtmlOfCss ==
    fn = "style" =>
        /\ result = html(StrVal(css(arg)))
        /\ result = BackslashAsEntity(css(arg))
        /\ \A i \in 1..Len(result) : result[i] \notin {92, 34, 39, 60, 62}
        /\ arg = StrVal(<<60, 119, 111, 119, 62>>) =>
              result = <<38, 35, 57, 50, 59, 51, 99, 32, 119, 111, 119,
                         38, 35, 57, 50, 59, 51, 101, 32>>

\* style has run on '<wow>'
C6_Witness ==
    /\ fn = "style"
    /\ arg = StrVal(<<60, 119, 111, 119, 62>>)
    /\ Len(result) = 19

(***************************************************************************)
(* The encoders as per-code-unit tables.                                   *)
(***************************************************************************)
\* the n uppercase (lowercase) hexadecimal digits of c, leading zeros kept
UpperHex(c, n) == [k \in 1..n |-> UpperHexDigits[((c \div (16 ^ (n - k))) % 16) + 1]]

\* the hexadecimal digits of c without leading zeros
HexWidth(c) == IF c < 16 THEN 1 ELSE IF c < 256 THEN 2 ELSE IF c < 4096 THEN 3 ELSE 4

LowerHex(c) ==
    [k \in 1..HexWidth(c) |-> LowerHexDigits[((c \div (16 ^ (HexWidth(c) - k))) % 16) + 1]]

UpperHexShort(c) ==
    [k \in 1..HexWidth(c) |-> UpperHexDigits[((c \div (16 ^ (HexWidth(c) - k))) % 16) + 1]]

Decimal2(c) == IF c < 10 THEN <<48 + c>> ELSE <<48 + (c \div 10), 48 + (c % 10)>>

HtmlOfUnit(c) ==
    IF c \in (0..8) \cup {11, 12} \cup (14..31) \cup (127..159) THEN <<32>>
    ELSE IF c \in {9, 10, 13, 32, 44, 46, 45, 95} \/ IsLetterOrDigit(c) \/ c \in 160..65535
         THEN <<c>>
    ELSE IF c = 34 THEN <<38, 113, 117, 111, 116, 59>>
    ELSE IF c = 38 THEN <<38, 97, 109, 112, 59>>
    ELSE IF c = 60 THEN <<38, 108, 116, 59>>
    ELSE IF c = 62 THEN <<38, 103, 116, 59>>
    ELSE IF c < 100 THEN <<38, 35>> \o Decimal2(c) \o <<59>>
    ELSE <<38, 35, 120>> \o UpperHexShort(c) \o <<59>>

\* C7: html(s) is the concatenation over the code units c of s of: a space
\* for the controls 0x00-0x08, 0x0B, 0x0C, 0x0E-0x1F, 0x7F-0x9F; c itself for
\* tab, LF, CR, space, ',', '.', '-', '_', 0-9, A-Z, a-z and U+00A0-U+FFFF;
\* &quot; &amp; &lt; &gt; for '"', '&', '<', '>'; else &#D; in decimal below 100
\* and &#xH; in uppercase hexadecimal from 100 on
C7_HtmlPerUnit ==
    fn = "html" => result = Flatten([i \in 1..Len(Input) |-> HtmlOfUnit(Input[i])])

\* html has run on a unit of the hexadecimal branch
C7_Witness ==
    /\ fn = "html"
    /\ arg = StrVal(<<123>>)
    /\ result = <<38, 35, 120, 55, 66, 59>>

JsOfUnit(c) ==
    IF c \in {44, 45, 46, 95} \/ IsLetterOrDigit(c) THEN <<c>>
    ELSE IF c < 128 THEN <<92, 120>> \o UpperHex(c, 2)
    ELSE <<92, 117>> \o UpperHex(c, 4)

\* C8: js(s) is the concatenation over the code units c of s of: c itself
\* when it is one of , - . _ 0-9 A-Z a-z; \xHH when c < 0x80; \uHHHH when
\* c >= 0x80 (two escapes for a surrogate pair)
C8_JsPerUnit ==
    fn = "js" => result = Flatten([i \in 1..Len(Input) |-> JsOfUnit(Input[i])])

\* js has run on a surrogate pair
C8_Witness ==
    /\ fn = "js"
    /\ arg = StrVal(<<55357, 56886>>)
    /\ result = <<92, 117, 68, 56, 51, 68, 92, 117, 68, 69, 51, 54>>

JsonWhitelisted(c) ==
    c \in {34, 44, 45, 46, 58, 91, 92, 93, 95, 123, 125} \/ IsLetterOrDigit(c)

JsonEscape(c) ==
    IF c < 128 THEN <<92, 120>> \o UpperHex(c, 2) ELSE <<92, 117>> \o UpperHex(c, 4)

\* json of t from index i on as a table: "]]" and the '>' after it are
\* written \x5D\x5D\x3E, a unit outside the JSON whitelist is written as its
\* escape, any other unit is kept
RECURSIVE JsonTable(_, _, _)
JsonTable(t, i, escaped) ==
    IF i > Len(t) THEN <<>>
    ELSE IF t[i] = 93 /\ At(t, i + 1) = 93 /\ GtLen(t, i + 2, escaped) > 0
         THEN <<92, 120, 53, 68, 92, 120, 53, 68, 92, 120, 51, 69>>
                  \o JsonTable(t, i + 2 + GtLen(t, i + 2, escaped), escaped)
    ELSE IF ~ JsonWhitelisted(t[i]) THEN JsonEscape(t[i]) \o JsonTable(t, i + 1, escaped)
    ELSE <<t[i]>> \o JsonTable(t, i + 1, escaped)

RECURSIVE CssAsClaimed(_, _)
CssAsClaimed(s, i) ==
    IF i > Len(s) THEN <<>>
    ELSE IF IsLetterOrDigit(s[i]) THEN <<s[i]>> \o CssAsClaimed(s, i + 1)
    ELSE IF s[i] \in 55296..56319 /\ At(s, i + 1) \in 56320..57343
         THEN <<s[i], s[i + 1]>> \o CssAsClaimed(s, i + 2)
    ELSE IF s[i] = 0 THEN <<92, 102, 102, 102, 100, 32>> \o CssAsClaimed(s, i + 1)
    ELSE <<92>> \o LowerHex(s[i]) \o <<32>> \o CssAsClaimed(s, i + 1)

\* C10: for every string of UTF-16 code units css keeps exactly a-z, A-Z, 0-9
\* and the code points from U+10000 on; every other character is written as a
\* backslash, its lowercase hexadecimal digits and a space, NUL as \fffd
C10_CssPerCharacter ==
    (fn = "css" /\ arg.kind = "string") => result = CssAsClaimed(Input, 1)

\* s holds no unpaired surrogate half from index i on
RECURSIVE WellFormedUTF16(_, _)
WellFormedUTF16(s, i) ==
    IF i > Len(s) THEN TRUE
    ELSE IF IsHigh(s[i]) THEN IsLow(At(s, i + 1)) /\ WellFormedUTF16(s, i + 2)
    ELSE ~ IsLow(s[i]) /\ WellFormedUTF16(s, i + 1)

\* C11: for every input string without an unpaired surrogate half, uri returns
\* what the byte loop of the earlier release returns: the UTF-8 octets of the
\* string, letters, digits, '-', '.' and '_' kept, every other octet written
\* as '%' and its two uppercase hexadecimal digits
C11_UriIsByteLoop ==
    (fn = "uri" /\ WellFormedUTF16(Input, 1)) =>
        (threw = "none" /\ result = uri_ByteLoop(arg))

\* what holds of C11: the two agree wherever encodeURIComponent is the one of
\* ECMA-262
C11_OnConformingPlatforms ==
    (fn = "uri" /\ platform # "ie" /\ WellFormedUTF16(Input, 1)) =>
        (threw = "none" /\ result = uri_ByteLoop(arg))

\* C12: html, js, jsAttr, uri, css, style and json return a string for every
\* input string, unpaired surrogate halves included: none raises an error, and
\* no code unit of the input goes without output
C12_NeverRaises ==
    (fn \in {"html", "js", "jsAttr", "uri", "css", "style", "json"}
        /\ arg.kind = "string") =>
        (threw = "none" /\ Len(result) >= Len(Input))

(***************************************************************************)
(* jsObj and the values JSON has no text for                               *)
(***************************************************************************)
\* val is cyclic, or holds a cyclic value
RECURSIVE HasCycle(_)
HasCycle(val) ==
    CASE val.kind = "cyclic" -> TRUE
      [] val.kind = "array" -> \E i \in 1..Len(val.items) : HasCycle(val.items[i])
      [] val.kind = "object" -> \E i \in 1..Len(val.vals) : HasCycle(val.vals[i])
      [] OTHER -> FALSE

\* val is, or holds, a value JSON cannot represent
RECURSIVE Unrepresentable(_)
Unrepresentable(val) ==
    CASE val.kind \in {"cyclic", "function", "undefined"} -> TRUE
      [] val.kind = "array" -> \E i \in 1..Len(val.items) : Unrepresentable(val.items[i])
      [] val.kind = "object" -> \E i \in 1..Len(val.vals) : Unrepresentable(val.vals[i])
      [] OTHER -> FALSE

\* val with every function or undefined element of an array replaced by null
\* and every member of an object whose value is one left out
RECURSIVE Scrub(_)
Scrub(val) ==
    CASE val.kind = "array" ->
            ArrVal([i \in 1..Len(val.items) |->
                      IF val.items[i].kind \in {"function", "undefined"} THEN NullVal
                      ELSE Scrub(val.items[i])])
      [] val.kind = "object" ->
            LET kept == SelectSeq([i \in 1..Len(val.vals) |-> i],
                                  LAMBDA i : val.vals[i].kind \notin {"function", "undefined"})
            IN  ObjVal([k \in 1..Len(kept) |-> val.keys[kept[k]]],
                       [k \in 1..Len(kept) |-> Scrub(val.vals[kept[k]])])
      [] OTHER -> val

HexVal(c) ==
    IF c \in 48..57 THEN c - 48
    ELSE IF c \in 65..70 THEN c - 55
    ELSE IF c \in 97..102 THEN c - 87
    ELSE -1

\* the value of the n hexadecimal digits of s from index i on, -1 when they
\* are not all there
RECURSIVE HexRun(_, _, _)
HexRun(s, i, n) ==
    IF n = 0 THEN 0
    ELSE LET d == HexVal(At(s, i + n - 1))
             rest == HexRun(s, i, n - 1)
         IN  IF d < 0 \/ rest < 0 THEN -1 ELSE rest * 16 + d

LineTerminators == {10, 13, 8232, 8233}

\* the characters of a string literal from index i of s up to the first
\* unescaped code unit of closers, or to the end of s: [ok, str, next], next
\* being the index of that closer (Len(s) + 1 at the end of s)
RECURSIVE JsStringChars(_, _, _)
JsStringChars(s, i, closers) ==
    IF i > Len(s) \/ s[i] \in closers THEN [ok |-> TRUE, str |-> <<>>, next |-> i]
    ELSE IF s[i] \in LineTerminators THEN [ok |-> FALSE, str |-> <<>>, next |-> i]
    ELSE IF s[i] # 92
         THEN LET r == JsStringChars(s, i + 1, closers)
              IN  [ok |-> r.ok, str |-> <<s[i]>> \o r.str, next |-> r.next]
    ELSE LET e == At(s, i + 1)
             n == IF e = 120 THEN 2 ELSE IF e = 117 THEN 4 ELSE 0
             code == CASE e = 120 \/ e = 117 -> HexRun(s, i + 2, n)
                       [] e = 98 -> 8
                       [] e = 116 -> 9
                       [] e = 110 -> 10
                       [] e = 118 -> 11
                       [] e = 102 -> 12
                       [] e = 114 -> 13
                       [] e = 48 -> IF At(s, i + 2) \in 48..57 THEN -1 ELSE 0
                       [] e \in 49..57 -> -1
                       [] e \in LineTerminators -> -1
                       [] OTHER -> e
         IN  IF code < 0 THEN [ok |-> FALSE, str |-> <<>>, next |-> i]
             ELSE LET r == JsStringChars(s, i + 2 + n, closers)
                  IN  [ok |-> r.ok, str |-> <<code>> \o r.str, next |-> r.next]

\* the index after the run of decimal digits of s that starts at index i
RECURSIVE AfterDigits(_, _)
AfterDigits(s, i) == IF At(s, i) \in 48..57 THEN AfterDigits(s, i + 1) ELSE i

\* the index after the numeric literal (with an optional minus sign before
\* it) that starts at index i of s, 0 when there is none
AfterNumber(s, i) ==
    LET int == IF At(s, i) = 45 THEN i + 1 ELSE i
        frac == AfterDigits(s, int)
        exp == IF At(s, frac) = 46 THEN AfterDigits(s, frac + 1) ELSE frac
        sign == IF At(s, exp) \in {69, 101}
                THEN (IF At(s, exp + 1) \in {43, 45} THEN exp + 2 ELSE exp + 1)
                ELSE 0
    IN  IF frac = int \/ (At(s, frac) = 46 /\ exp = frac + 1) THEN 0
        ELSE IF sign = 0 THEN exp
        ELSE IF AfterDigits(s, sign) = sign THEN 0
        ELSE AfterDigits(s, sign)

JsFail == [ok |-> FALSE, val |-> NullVal, next |-> 0]

\* the literal expression that starts at index i of s: [ok, val, next], next
\* being the index after it; JsElements reads the elements of an array literal
\* after its '[' or a ',', JsMembers the members of an object literal
RECURSIVE JsValue(_, _)
RECURSIVE JsElements(_, _, _)
RECURSIVE JsMembers(_, _, _, _)
JsValue(s, i) ==
    LET c == At(s, i)
    IN  CASE c = 34 ->
                LET r == JsStringChars(s, i + 1, {34})
                IN  IF r.ok /\ At(s, r.next) = 34
                    THEN [ok |-> TRUE, val |-> StrVal(r.str), next |-> r.next + 1]
                    ELSE JsFail
          [] c = 91 ->
                IF At(s, i + 1) = 93
                THEN [ok |-> TRUE, val |-> ArrVal(<<>>), next |-> i + 2]
                ELSE JsElements(s, i + 1, <<>>)
          [] c = 123 ->
                IF At(s, i + 1) = 125
                THEN [ok |-> TRUE, val |-> ObjVal(<<>>, <<>>), next |-> i + 2]
                ELSE JsMembers(s, i + 1, <<>>, <<>>)
          [] StartsAt(s, i, <<116, 114, 117, 101>>) ->
                [ok |-> TRUE, val |-> BoolVal(<<116, 114, 117, 101>>), next |-> i + 4]
          [] StartsAt(s, i, <<102, 97, 108, 115, 101>>) ->
                [ok |-> TRUE, val |-> BoolVal(<<102, 97, 108, 115, 101>>), next |-> i + 5]
          [] StartsAt(s, i, <<110, 117, 108, 108>>) ->
                [ok |-> TRUE, val |-> NullVal, next |-> i + 4]
          [] OTHER ->
                LET n == AfterNumber(s, i)
                IN  IF n = 0 THEN JsFail
                    ELSE [ok |-> TRUE, val |-> NumVal(SubSeq(s, i, n - 1)), next |-> n]

JsElements(s, i, items) ==
    LET r == JsValue(s, i)
    IN  IF ~ r.ok THEN JsFail
        ELSE IF At(s, r.next) = 93
             THEN [ok |-> TRUE, val |-> ArrVal(Append(items, r.val)), next |-> r.next + 1]
        ELSE IF At(s, r.next) = 44 THEN JsElements(s, r.next + 1, Append(items, r.val))
        ELSE JsFail

JsMembers(s, i, keys, vals) ==
    LET k == IF At(s, i) = 34 THEN JsStringChars(s, i + 1, {34})
             ELSE [ok |-> FALSE, str |-> <<>>, next |-> 0]
        r == JsValue(s, k.next + 2)
    IN  IF ~ k.ok \/ At(s, k.next) # 34 \/ At(s, k.next + 1) # 58 THEN JsFail
        ELSE IF ~ r.ok THEN JsFail
        ELSE IF At(s, r.next) = 125
             THEN [ok |-> TRUE, val |-> ObjVal(Append(keys, k.str), Append(vals, r.val)),
                   next |-> r.next + 1]
        ELSE IF At(s, r.next) = 44
             THEN JsMembers(s, r.next + 1, Append(keys, k.str), Append(vals, r.val))
        ELSE JsFail

\* the value the expression s evaluates to, ok |-> FALSE where s is not one
\* literal expression
JsEval(s) ==
    LET r == JsValue(s, 1)
    IN  IF r.ok /\ r.next = Len(s) + 1 THEN [ok |-> TRUE, val |-> r.val]
        ELSE [ok |-> FALSE, val |-> NullVal]

\* C14: for every JSON-serializable value v (null, booleans, numbers as
\* JSON.stringify renders them, strings, arrays, objects) jsObj(v) is a valid
\* JavaScript expression that evaluates to a value equal to v
C14_JsObjEvaluatesToValue ==
    (fn = "jsObj" /\ ~ Unrepresentable(arg)) =>
        (threw = "none" /\ JsEval(result).ok /\ JsEval(result).val = arg)

\* val is, or holds, a number whose text has a '+'
RECURSIVE HoldsPlus(_)
HoldsPlus(val) ==
    CASE val.kind = "number" -> Contains(val.str, <<43>>)
      [] val.kind = "array" -> \E i \in 1..Len(val.items) : HoldsPlus(val.items[i])
      [] val.kind = "object" -> \E i \in 1..Len(val.vals) : HoldsPlus(val.vals[i])
      [] OTHER -> FALSE

\* what holds of C14: every value without a number whose text has a '+'
C14_WithoutPlus ==
    (fn = "jsObj" /\ ~ Unrepresentable(arg) /\ ~ HoldsPlus(arg)) =>
        (threw = "none" /\ JsEval(result).ok /\ JsEval(result).val = arg)

(***************************************************************************)
(* Reading the output back                                                 *)
(***************************************************************************)
\* C15: for every input string s, unpaired surrogate halves included, js(s)
\* read as the body of a single- or double-quoted JavaScript string literal
\* is exactly s (so js is injective)
C15_JsRoundTrip ==
    fn = "js" =>
        LET r == JsStringChars(result, 1, {34, 39})
        IN  r.ok /\ r.next = Len(result) + 1 /\ r.str = Input

\* js has run on a backslash, a double quote and an unpaired high surrogate
\* half, and written each as an escape
C15_Witness ==
    /\ fn = "js"
    /\ arg = StrVal(<<92, 34, 55357>>)
    /\ result = <<92, 120, 53, 67, 92, 120, 50, 50, 92, 117, 68, 56, 51, 68>>

\* the digits of s in the given base from index i on: [val, next], next being
\* the index of the first code unit that is no digit
RECURSIVE NumberAt(_, _, _, _)
NumberAt(s, i, base, acc) ==
    LET d == HexVal(At(s, i))
    IN  IF d < 0 \/ d >= base THEN [val |-> acc, next |-> i]
        ELSE NumberAt(s, i + 1, base, acc * base + d)

\* the code points a numeric character reference in 0x80-0x9F stands for
Windows1252 ==
    <<8364, 129, 8218, 402, 8222, 8230, 8224, 8225, 710, 8240, 352, 8249, 338, 141, 381, 143,
      144, 8216, 8217, 8220, 8221, 8226, 8211, 8212, 732, 8482, 353, 8250, 339, 157, 382, 376>>

\* the character a numeric character reference with number n stands for
NumericReference(n) ==
    IF n = 0 \/ n \in 55296..57343 \/ n > 1114111 THEN 65533
    ELSE IF n \in 128..159 THEN Windows1252[n - 127]
    ELSE n

\* the character reference that starts at index i of s: [len, code], len being
\* 0 when there is none
CharacterReference(s, i) ==
    LET hex == NumberAt(s, i + 3, 16, 0)
        dec == NumberAt(s, i + 2, 10, 0)
    IN  CASE StartsAt(s, i, <<38, 97, 109, 112, 59>>) -> [len |-> 5, code |-> 38]
          [] StartsAt(s, i, <<38, 108, 116, 59>>) -> [len |-> 4, code |-> 60]
          [] StartsAt(s, i, <<38, 103, 116, 59>>) -> [len |-> 4, code |-> 62]
          [] StartsAt(s, i, <<38, 113, 117, 111, 116, 59>>) -> [len |-> 6, code |-> 34]
          [] StartsAt(s, i, <<38, 35>>) /\ At(s, i + 2) \in {88, 120}
                /\ hex.next > i + 3 /\ At(s, hex.next) = 59 ->
                [len |-> hex.next - i + 1, code |-> NumericReference(hex.val)]
          [] StartsAt(s, i, <<38, 35>>) /\ dec.next > i + 2 /\ At(s, dec.next) = 59 ->
                [len |-> dec.next - i + 1, code |-> NumericReference(dec.val)]
          [] OTHER -> [len |-> 0, code |-> 0]

\* s from index i on with its character references replaced by what they
\* stand for (an HTML entity decoder)
RECURSIVE HtmlDecode(_, _)
HtmlDecode(s, i) ==
    IF i > Len(s) THEN <<>>
    ELSE LET r == CharacterReference(s, i)
         IN  IF r.len > 0 THEN <<r.code>> \o HtmlDecode(s, i + r.len)
             ELSE <<s[i]>> \o HtmlDecode(s, i + 1)

\* the index after the at most n hexadecimal digits of s that start at index i
RECURSIVE AfterHex(_, _, _)
AfterHex(s, i, n) ==
    IF n > 0 /\ HexVal(At(s, i)) >= 0 THEN AfterHex(s, i + 1, n - 1) ELSE i

\* s from index i on with its escapes replaced by what they stand for (the
\* escape rule of CSS: a backslash, one to six hexadecimal digits and one
\* optional white space; or a backslash and any other character)
RECURSIVE CssDecode(_, _)
CssDecode(s, i) ==
    IF i > Len(s) THEN <<>>
    ELSE IF s[i] # 92 \/ i = Len(s) THEN <<s[i]>> \o CssDecode(s, i + 1)
    ELSE LET end == AfterHex(s, i + 1, 6)
             n == HexRun(s, i + 1, end - i - 1)
             code == IF n = 0 \/ n \in 55296..57343 \/ n > 1114111 THEN 65533 ELSE n
             after == IF At(s, end) \in {9, 10, 12, 13, 32} THEN end + 1 ELSE end
         IN  IF end = i + 1 THEN <<s[i + 1]>> \o CssDecode(s, i + 2)
             ELSE <<code>> \o CssDecode(s, after)

\* C16 as written: decoding html(s) with an HTML entity decoder gives back s,
\* and decoding css(s) with a CSS escape parser gives back s
C16_AsWritten ==
    /\ fn = "html" => HtmlDecode(result, 1) = Input
    /\ fn = "css" => CssDecode(result, 1) = Input

\* C16 as amended: decoding html(s) gives back s with a space in the place of
\* every control character of HTML_CONTROL (so s itself when it has none);
\* for s without an unpaired surrogate half, decoding css(s) gives back s
\* with U+FFFD in the place of every NUL (so s itself when it has none)
C16_RoundTripAmended ==
    /\ fn = "html" =>
          HtmlDecode(result, 1) =
              [i \in 1..Len(Input) |-> IF HTML_CONTROL(Input[i]) THEN 32 ELSE Input[i]]
    /\ (fn = "css" /\ WellFormedUTF16(Input, 1)) =>
          CssDecode(result, 1) =
              [i \in 1..Len(Input) |-> IF Input[i] = 0 THEN 65533 ELSE Input[i]]

\* css has run on ]a and written \5d a, whose escape ends at the space
C16_Witness ==
    /\ fn = "css"
    /\ arg = StrVal(<<93, 97>>)
    /\ result = <<92, 53, 100, 32, 97>>
    /\ CssDecode(result, 1) = <<93, 97>>

(***************************************************************************)
(* Whitelists                                                              *)
(***************************************************************************)
\* every code unit of s is in set
MadeOf(s, set) == \A i \in 1..Len(s) : s[i] \in set

Alphanumerics == (48..57) \cup (65..90) \cup (97..122)

\* the whitelists as C17 lists them
HtmlListed == {9, 10, 11, 12, 13, 32, 44, 46, 45} \cup Alphanumerics \cup (160..65535)
JsListed == {44, 46, 45} \cup Alphanumerics
JsonListed == JsListed \cup {34, 58, 91, 93, 92, 95, 123, 125}
CssListed == Alphanumerics \cup (161..65535)

\* C17 as written: an encoder returns unchanged every string made only of its
\* whitelist as listed (html: tab, newline, vertical tab, form feed, carriage
\* return, space, comma, period, digits, letters, hyphen, U+00A0-U+FFFF; js:
\* comma, period, hyphen, digits, letters; json: the js set and " : [ ] \ _
\* { }; css: letters, digits and everything from U+00A1 on)
C17_AsWritten ==
    /\ (fn = "html" /\ MadeOf(Input, HtmlListed)) => result = Input
    /\ (fn = "js" /\ MadeOf(Input, JsListed)) => result = Input
    /\ (fn = "json" /\ MadeOf(Input, JsonListed)) => result = Input
    /\ (fn = "css" /\ MadeOf(Input, CssListed)) => result = Input

\* s holds a "]]" that is followed by \x3E or \u003E, in either letter case
HoldsEscapedCdataClose(s) ==
    \E i \in 1..Len(s) :
        At(s, i) = 93 /\ At(s, i + 1) = 93 /\ GtLen(s, i + 2, TRUE) > 1

\* C17 as amended: html returns unchanged every string made of tab, newline,
\* carriage return, space, comma, period, hyphen, underscore, digits, letters
\* and U+00A0-U+FFFF; js every string made of comma, period, hyphen,
\* underscore, digits and letters; json every string made of the js set and
\* " : [ ] \ { } that holds no "]]" followed by \x3E or \u003E (in either
\* letter case); css every
\* string made of letters, digits and surrogate pairs
C17_WhitelistFixpointAmended ==
    /\ (fn = "html" /\ MadeOf(Input, (HtmlListed \ {11, 12}) \cup {95})) => result = Input
    /\ (fn = "js" /\ MadeOf(Input, JsListed \cup {95})) => result = Input
    /\ (fn = "json" /\ MadeOf(Input, JsonListed) /\ ~ HoldsEscapedCdataClose(Input)) =>
          result = Input
    /\ (fn = "css" /\ MadeOf(Input, Alphanumerics \cup (55296..57343))
           /\ WellFormedUTF16(Input, 1)) => result = Input

\* js has run on a hyphen and returned it as it is
C17_Witness ==
    /\ fn = "js"
    /\ arg = StrVal(<<45>>)
    /\ result = <<45>>

(***************************************************************************)
(* html in attribute values                                                *)
(***************************************************************************)
\* C18 as written: html(s) is safe as an unquoted attribute value: it holds no
\* space, tab, line feed, form feed or carriage return, no quote or
\* apostrophe, and no '=', '<', '>' or backtick
C18_AsWritten ==
    (fn = "html" /\ arg.kind = "string") => MadeOf(result, (0..65535) \ {32, 9, 10, 12, 13, 34, 39, 61, 60, 62, 96})

WhiteSpace(c) == c \in {9, 10, 13, 32}

\* C18 as amended: html(s) holds no quote or apostrophe, no '=', '<', '>' or
\* backtick and no form feed, but it holds every space, tab, line feed and
\* carriage return of s, and a space for every control character of s
C18_QuotedAttributeOnlyAmended ==
    fn = "html" =>
        /\ MadeOf(result, (0..65535) \ {12, 34, 39, 61, 60, 62, 96})
        /\ SelectSeq(result, WhiteSpace) =
              SelectSeq([i \in 1..Len(Input) |->
                            IF HTML_CONTROL(Input[i]) THEN 32 ELSE Input[i]],
                        WhiteSpace)

\* html has run on a tab and returned it as it is
C18_Witness ==
    /\ fn = "html"
    /\ arg = StrVal(<<9>>)
    /\ result = <<9>>

(***************************************************************************)
(* html and code points above U+FFFF                                       *)
(***************************************************************************)
\* s holds a high surrogate half followed by a low one
HoldsPair(s) == \E i \in 1..Len(s) : IsHigh(s[i]) /\ IsLow(At(s, i + 1))

\* C19 as written: html writes each half of a surrogate pair as a numeric
\* entity of its own, so a code point above U+FFFF gives two &#x...; entities
C19_AsWritten ==
    (fn = "html" /\ HoldsPair(Input)) =>
        result = Flatten([i \in 1..Len(Input) |->
                            IF IsHigh(Input[i]) \/ IsLow(Input[i])
                            THEN <<38, 35, 120>> \o UpperHexShort(Input[i]) \o <<59>>
                            ELSE HtmlOfUnit(Input[i])])

\* C19 as amended: html leaves both halves of a surrogate pair as they are,
\* so a code point above U+FFFF gives the same two code units and no entity
C19_SurrogatesKeptAmended ==
    (fn = "html" /\ HoldsPair(Input)) =>
        result = Flatten([i \in 1..Len(Input) |->
                            IF IsHigh(Input[i]) \/ IsLow(Input[i])
                            THEN <<Input[i]>>
                            ELSE HtmlOfUnit(Input[i])])

\* html has run on U+1F636 and returned its two halves as they are
C19_Witness ==
    /\ fn = "html"
    /\ arg = StrVal(<<55357, 56886>>)
    /\ result = <<55357, 56886>>

(***************************************************************************)
(* Input that is encoded already                                           *)
(***************************************************************************)
\* the number of places of s where pat occurs
Count(s, pat) == Cardinality({i \in 1..Len(s) : StartsAt(s, i, pat)})

\* the encoder called name applied to the string s
Again(name, s) ==
    CASE name = "html" -> html(StrVal(s))
      [] name = "js" -> js(StrVal(s))
      [] name = "jsAttr" -> jsAttr(StrVal(s))
      [] name = "uri" -> uri(StrVal(s), platform).str
      [] name = "json" -> json(StrVal(s))
      [] name = "jsObj" -> jsObj(StrVal(s), platform).str
      [] name = "css" -> css(StrVal(s))
      [] name = "style" -> style(StrVal(s))

\* the character every escape of the encoder called name holds
EscapeMark(name) ==
    CASE name \in {"html", "jsAttr", "style"} -> <<38>>
      [] name = "uri" -> <<37>>
      [] name \in {"js", "json", "jsObj", "css"} -> <<92>>

\* html writes every '&' as &amp;, uri every '%' as %25, js every backslash as
\* \x5C, whatever follows it
EscapesKeptApart ==
    /\ fn = "html" =>
          Count(result, <<38, 97, 109, 112, 59>>) = Count(Input, <<38>>)
    /\ (fn = "uri" /\ threw = "none") =>
          Count(result, <<37, 50, 53>>) = Count(Input, <<37>>)
    /\ fn = "js" =>
          Count(result, <<92, 120, 53, 67>>) = Count(Input, <<92>>)

\* C20 as written: no encoder recognises input that is encoded already (html
\* writes every '&' as &amp;, uri every '%' as %25, js every backslash as
\* \x5C), so whenever E(s) holds an escape, E(E(s)) differs from E(s), for
\* every encoder E
C20_AsWritten ==
    /\ EscapesKeptApart
    /\ (fn # "none" /\ arg.kind = "string" /\ threw = "none"
           /\ Contains(result, EscapeMark(fn))) =>
          Again(fn, result) # result

\* C20 as amended: the same for every encoder but json; json leaves the
\* escapes of its input as they are, so json(json(t)) is json(t)
C20_NoDoubleEncodingGuardAmended ==
    /\ EscapesKeptApart
    /\ (fn \notin {"none", "json"} /\ threw = "none" /\ Contains(result, EscapeMark(fn))) =>
          Again(fn, result) # result
    /\ fn = "json" => json(StrVal(result)) = result

\* html has run on &&amp;'d and encoded both ampersands
C20_Witness ==
    /\ fn = "html"
    /\ arg = StrVal(<<38, 38, 97, 109, 112, 59, 39, 100>>)
    /\ result = <<38, 97, 109, 112, 59, 38, 97, 109, 112, 59, 97, 109, 112,
                  38, 35, 53, 57, 59, 38, 35, 51, 57, 59, 100>>

(***************************************************************************)
(* Numbers and booleans                                                    *)
(***************************************************************************)
\* C21: for html, js, jsAttr, uri, css, style and json and every number or
\* boolean v, E(v) is E(String(v)); jsObj of a number or boolean is its JSON
\* text
C21_NumbersAndBooleans ==
    (arg.kind \in {"number", "boolean"} /\ fn # "none") =>
        /\ threw = "none"
        /\ fn # "jsObj" => result = Again(fn, String(arg))
        /\ fn = "jsObj" => result = arg.str

\* what holds of C21: every encoder but jsObj, and jsObj of a number whose
\* text has no '+'
C21_WithoutPlus ==
    (arg.kind \in {"number", "boolean"} /\ fn # "none") =>
        /\ threw = "none"
        /\ fn # "jsObj" => result = Again(fn, String(arg))
        /\ (fn = "jsObj" /\ ~ HoldsPlus(arg)) => result = arg.str

(***************************************************************************)
(* Calls in a session                                                      *)
(***************************************************************************)
\* a call gives what an earlier call of the same encoder on the same value gave
SameArgumentSameResult ==
    (fn = earlier.fn /\ arg = earlier.arg /\ fn \notin {"none", "configure"}) =>
        (result = earlier.result /\ threw = earlier.threw)

Keys(obj) == {n \in DOMAIN obj.filters : obj.filters[n] # "absent"}

Installed == {"html", "js", "jsAttr", "uri", "jsObj", "css", "style"}

\* C23: after any number of configure calls on an object that had no filters
\* map, or an empty one, ejs.filters is a map with exactly the seven keys
\* html, js, jsAttr, uri, jsObj, css, style, each bound to the module's
\* function of that name
C23_ExactlySevenFilters ==
    (returned = "ejs" /\ Keys(given) = {}) =>
        /\ ejs.filtersId \in {"given", "fresh"}
        /\ Keys(ejs) = Installed
        /\ Cardinality(Keys(ejs)) = 7
        /\ \A n \in Keys(ejs) : ejs.filters[n] = n

\* configure has run on an object that came with an empty filters map
C23_Witness ==
    /\ returned = "ejs"
    /\ given.filtersId = "given" /\ Keys(given) = {}
    /\ ejs.filters["style"] = "style"

\* C24: configure returns the very object it was given, makes a filters map
\* only where the object has none, leaves every entry of the map whose name
\* is not one of the module's filter names as it was, and changes no other
\* property of the object
C24_ConfigureFrame ==
    returned # "none" =>
        /\ returned = given.id /\ ejs.id = given.id
        /\ ejs.filtersId = (IF given.filtersId \in {"undefined", "null"} THEN "fresh"
                            ELSE given.filtersId)
        /\ \A n \in Names \ FilterNames : ejs.filters[n] = given.filters[n]
        /\ ejs.version = given.version

\* configure has run on an object whose map held a filter of the caller under
\* another name and one under the name html
C24_Witness ==
    /\ returned = "ejs"
    /\ given.filtersId = "given" /\ ejs.filtersId = "given"
    /\ given.filters["custom"] = "user" /\ ejs.filters["custom"] = "user"
    /\ given.filters["html"] = "user" /\ ejs.filters["html"] = "html"

\* C25 as written: after configure(ejs), ejs.filters has an entry for each
\* function of the public interface, html, js, jsAttr, uri, json, jsObj, css
\* and style, bound to that function
C25_AsWritten ==
    returned # "none" => \A n \in FilterNames : ejs.filters[n] = n

\* C25 as amended: after configure(ejs), ejs.filters has an entry for each of
\* html, js, jsAttr, uri, jsObj, css and style, bound to that function; json
\* is not installed, its entry is as the caller left it
C25_AllButJsonAmended ==
    returned # "none" =>
        /\ \A n \in Installed : ejs.filters[n] = n
        /\ ejs.filters["json"] = given.filters["json"]

\* configure has run on an object without a filters map: jsObj is installed,
\* json is not
C25_Witness ==
    /\ returned = "ejs"
    /\ given.filtersId = "undefined"
    /\ ejs.filters["jsObj"] = "jsObj"
    /\ ejs.filters["json"] = "absent"

(***************************************************************************)
(* jsAttr on quotes and angle brackets                                     *)
(***************************************************************************)
\* <ha>, 'ha', "ha"
HaHaHa == <<60, 104, 97, 62, 44, 32, 39, 104, 97, 39, 44, 32, 34, 104, 97, 34>>

\* &lt;ha&gt;, \&#39;ha\&#39;, \&quot;ha\&quot;
HaHaHaAsDocumented ==
    << 38, 108, 116, 59, 104, 97, 38, 103, 116, 59, 44, 32, 92, 38, 35, 51,
       57, 59, 104, 97, 92, 38, 35, 51, 57, 59, 44, 32, 92, 38, 113, 117,
       111, 116, 59, 104, 97, 92, 38, 113, 117, 111, 116, 59 >>

\* &#92;x3Cha&#92;x3E,&#92;x20&#92;x27ha&#92;x27,&#92;x20&#92;x22ha&#92;x22
HaHaHaEscaped ==
    << 38, 35, 57, 50, 59, 120, 51, 67, 104, 97, 38, 35, 57, 50, 59, 120,
       51, 69, 44, 38, 35, 57, 50, 59, 120, 50, 48, 38, 35, 57, 50, 59,
       120, 50, 55, 104, 97, 38, 35, 57, 50, 59, 120, 50, 55, 44, 38, 35,
       57, 50, 59, 120, 50, 48, 38, 35, 57, 50, 59, 120, 50, 50, 104, 97,
       38, 35, 57, 50, 59, 120, 50, 50 >>

C27_SameValueAsPrevious ==
    (fn = "jsObj" /\ ~ Unrepresentable(arg)) =>
        LET old == jsObj_Previous(arg, platform)
        IN  /\ threw = "none" /\ old.ok
            /\ JsEval(result).ok /\ JsEval(old.str).ok
            /\ JsEval(result).val = JsEval(old.str).val

\* the JSON text of arg holds a raw U+2028 or U+2029, which JSON.stringify
\* leaves as they are and a string literal may not hold before ES2019
HoldsLineSeparator ==
    \E i \in 1..Len(JsonText) : JsonText[i] \in {8232, 8233}

\* what holds of C27: every value without a number whose text has a '+' (the
\* allow-list jsObj breaks it) and without a line separator (the previous
\* jsObj left it raw)
C27_WithoutPlus ==
    (fn = "jsObj" /\ ~ Unrepresentable(arg) /\ ~ HoldsPlus(arg)
        /\ ~ HoldsLineSeparator) =>
        LET old == jsObj_Previous(arg, platform)
        IN  /\ threw = "none" /\ old.ok
            /\ JsEval(result).ok /\ JsEval(old.str).ok
            /\ JsEval(result).val = JsEval(old.str).val

(***************************************************************************)
(* The post-processing step of uri                                         *)
(***************************************************************************)
\* ! " ' ( ) * ~
Rewritten == {BANG, QUOT, APOS, LPAREN, RPAREN, AST, TILDE}

\* C28: each character the post-processing step of uri rewrites
\* (! " ' ( ) * ~) is replaced by '%' and the uppercase hexadecimal code of
\* that same character, whichever of them the platform's primitive leaves raw;
\* in particular a double quote always ends up as %22
C28_PostProcessingWritesOwnCode ==
    (fn = "uri" /\ threw = "none" /\ arg.kind = "string") =>
        /\ \A c \in Rewritten : Input = <<c>> => result = PercentOctet(c)
        /\ result = uri(arg, "es5").str

\* what holds of C28: the step writes its own code for every character it
\* rewrites but the double quote
C28_ButTheQuote ==
    (fn = "uri" /\ threw = "none" /\ arg.kind = "string") =>
        /\ \A c \in Rewritten \ {QUOT} : Input = <<c>> => result = PercentOctet(c)
        /\ ~ Contains(Input, <<QUOT>>) => result = uri(arg, "es5").str

(***************************************************************************)
(* json on JSON texts                                                      *)
(***************************************************************************)
\* the index after the white space of t that starts at index i
RECURSIVE JsonWs(_, _)
JsonWs(t, i) == IF At(t, i) \in {9, 10, 13, 32} THEN JsonWs(t, i + 1) ELSE i

\* the index after the closing quote of the JSON string whose characters start
\* at index k of t, 0 when it is not one
RECURSIVE JsonAfterChars(_, _)
JsonAfterChars(t, k) ==
    LET c == At(t, k)
        e == At(t, k + 1)
    IN  IF c = 34 THEN k + 1
        ELSE IF c < 32 THEN 0
        ELSE IF c # 92 THEN JsonAfterChars(t, k + 1)
        ELSE IF e \in {34, 92, 47, 98, 102, 110, 114, 116} THEN JsonAfterChars(t, k + 2)
        ELSE IF e = 117 /\ HexRun(t, k + 2, 4) >= 0 THEN JsonAfterChars(t, k + 6)
        ELSE 0

\* the index after the JSON number that starts at index i of t, 0 when there
\* is none
JsonAfterNumber(t, i) ==
    LET int == IF At(t, i) = 45 THEN i + 1 ELSE i
    IN  IF At(t, int) = 48 /\ At(t, int + 1) \in 48..57 THEN 0
        ELSE AfterNumber(t, i)

\* the index after the JSON value that starts at index i of t, 0 when there
\* is none
RECURSIVE JsonAfterValue(_, _)
RECURSIVE JsonAfterElements(_, _)
RECURSIVE JsonAfterMembers(_, _)
JsonAfterValue(t, i) ==
    LET c == At(t, i)
        j == JsonWs(t, i + 1)
    IN  IF c = 34 THEN JsonAfterChars(t, i + 1)
        ELSE IF c = 91
             THEN (IF At(t, j) = 93 THEN j + 1 ELSE JsonAfterElements(t, j))
        ELSE IF c = 123
             THEN (IF At(t, j) = 125 THEN j + 1 ELSE JsonAfterMembers(t, j))
        ELSE IF StartsAt(t, i, <<116, 114, 117, 101>>) THEN i + 4
        ELSE IF StartsAt(t, i, <<102, 97, 108, 115, 101>>) THEN i + 5
        ELSE IF StartsAt(t, i, <<110, 117, 108, 108>>) THEN i + 4
        ELSE JsonAfterNumber(t, i)

\* the index after the ']' that ends the elements starting at index i of t
JsonAfterElements(t, i) ==
    LET v == JsonAfterValue(t, i)
        j == JsonWs(t, v)
    IN  IF v = 0 THEN 0
        ELSE IF At(t, j) = 44 THEN JsonAfterElements(t, JsonWs(t, j + 1))
        ELSE IF At(t, j) = 93 THEN j + 1
        ELSE 0

\* the index after the '}' that ends the members starting at index i of t
JsonAfterMembers(t, i) ==
    LET s == IF At(t, i) = 34 THEN JsonAfterChars(t, i + 1) ELSE 0
        c == JsonWs(t, s)
        v == IF s > 0 /\ At(t, c) = 58 THEN JsonAfterValue(t, JsonWs(t, c + 1)) ELSE 0
        j == JsonWs(t, v)
    IN  IF v = 0 THEN 0
        ELSE IF At(t, j) = 44 THEN JsonAfterMembers(t, JsonWs(t, j + 1))
        ELSE IF At(t, j) = 125 THEN j + 1
        ELSE 0

\* t is a syntactically valid JSON text
IsJsonText(t) ==
    LET v == JsonAfterValue(t, JsonWs(t, 1))
    IN  v > 0 /\ JsonWs(t, v) = Len(t) + 1

\* the characters of t from index i on that lie outside string literals, the
\* quotes that delimit the literals included
RECURSIVE Outside(_, _, _)
Outside(t, i, inString) ==
    IF i > Len(t) THEN <<>>
    ELSE IF ~ inString
         THEN <<t[i]>> \o Outside(t, i + 1, t[i] = 34)
    ELSE IF t[i] = 34 THEN <<34>> \o Outside(t, i + 1, FALSE)
    ELSE IF t[i] = 92 THEN Outside(t, i + 2, TRUE)
    ELSE Outside(t, i + 1, TRUE)

\* C29: for every syntactically valid JSON text t, json(t) changes only
\* characters inside string literals: every character of t outside a string
\* literal (structural tokens, number characters with the exponent sign,
\* true, false, null, white space between tokens) is unchanged in the output
C29_OnlyInsideStringLiterals ==
    (fn \in {"json", "jsObj"} /\ threw = "none" /\ IsJsonText(JsonText)) =>
        Outside(result, 1, FALSE) = Outside(JsonText, 1, FALSE)

\* what holds of C29: the texts whose characters outside string literals are
\* all in the allow-list of JSON_NOT_WHITELISTED
C29_AllowListedOutside ==
    (fn \in {"json", "jsObj"} /\ threw = "none" /\ IsJsonText(JsonText)
        /\ \A i \in 1..Len(Outside(JsonText, 1, FALSE)) :
              ~ JSON_NOT_WHITELISTED(Outside(JsonText, 1, FALSE)[i])) =>
        Outside(result, 1, FALSE) = Outside(JsonText, 1, FALSE)

\* json has run on JSON texts with a string literal, and on some with white
\* space between tokens
C29_Exercised ==
    /\ fn = "json" /\ IsJsonText(Input)
    /\ Contains(Input, <<34>>) /\ Contains(Input, <<32>>)

(***************************************************************************)
(* Code units are encoded one by one                                       *)
(***************************************************************************)
UnitByUnit == {"html", "js", "css", "jsAttr", "style"}

\* C30: html, js, css, jsAttr and style encode each UTF-16 code unit
\* independently of its neighbours: for all strings s and t, E(s followed by
\* t) is E(s) followed by E(t), and E of the empty string is the empty string
C30_EncodersAreHomomorphisms ==
    fn \in UnitByUnit =>
        /\ \A k \in 0..Len(Input) :
              result = Again(fn, SubSeq(Input, 1, k))
                          \o Again(fn, SubSeq(Input, k + 1, Len(Input)))
        /\ Again(fn, <<>>) = <<>>

\* an encoder has run on a string of an escaped unit between two others, a
\* high surrogate half before a low one among them
C30_Witness ==
    /\ fn \in UnitByUnit
    /\ arg.kind = "string"
    /\ Len(Input) = 3
    /\ IsHigh(Input[1]) /\ IsLow(Input[2])
    /\ Len(result) > 3

====
